---- MODULE Spec2Model ----
(***************************************************************************)
(* diffdragon: heuristic risk scoring, the AI enrichment batch and the     *)
(* snapshot holder.                                                        *)
(*                                                                         *)
(* Go strings are TLA+ strings; Len, SubSeq and \o act on them character   *)
(* by character, so the string functions below are computed as the Go      *)
(* standard library computes them.                                         *)
(***************************************************************************)
EXTENDS Integers, Sequences, FiniteSets, TLC

(***************************************************************************)
(* strings / path/filepath helpers                                         *)
(***************************************************************************)
\* the lower-case letter of each upper-case ASCII letter
LowerOf ==
    LET Upper == "ABCDEFGHIJKLMNOPQRSTUVWXYZ"
        Lower == "abcdefghijklmnopqrstuvwxyz"
    IN  [c \in {SubSeq(Upper, i, i) : i \in 1..26} |->
            LET i == CHOOSE j \in 1..26 : SubSeq(Upper, j, j) = c IN SubSeq(Lower, i, i)]

\* unicode.ToLower on one ASCII character
LowerChar(c) == IF c \in DOMAIN LowerOf THEN LowerOf[c] ELSE c

RECURSIVE ToLower(_)
\* strings.ToLower
ToLower(s) ==
    IF Len(s) = 0 THEN ""
    ELSE LowerChar(SubSeq(s, 1, 1)) \o ToLower(SubSeq(s, 2, Len(s)))

\* unicode.IsSpace on the ASCII white space that occurs in reasons and tags
IsSpace(c) == c \in {" ", "\t", "\n", "\r"}

RECURSIVE TrimLeft(_)
TrimLeft(s) ==
    IF Len(s) > 0 /\ IsSpace(SubSeq(s, 1, 1)) THEN TrimLeft(SubSeq(s, 2, Len(s))) ELSE s

RECURSIVE TrimRight(_)
TrimRight(s) ==
    IF Len(s) > 0 /\ IsSpace(SubSeq(s, Len(s), Len(s)))
    THEN TrimRight(SubSeq(s, 1, Len(s) - 1)) ELSE s

\* strings.TrimSpace
TrimSpace(s) == TrimRight(TrimLeft(s))

\* strings.Contains
Contains(s, sub) ==
    \E i \in 1..(Len(s) - Len(sub) + 1) : SubSeq(s, i, i + Len(sub) - 1) = sub

\* strings.HasPrefix
HasPrefix(s, p) == Len(s) >= Len(p) /\ SubSeq(s, 1, Len(p)) = p

RECURSIVE StripSlashes(_)
StripSlashes(p) ==
    IF Len(p) > 0 /\ SubSeq(p, Len(p), Len(p)) = "/"
    THEN StripSlashes(SubSeq(p, 1, Len(p) - 1)) ELSE p

\* index of the last "/" of p, 0 when there is none
LastSlash(p) ==
    LET S == {i \in 1..Len(p) : SubSeq(p, i, i) = "/"}
    IN  IF S = {} THEN 0 ELSE CHOOSE i \in S : \A j \in S : j <= i

\* filepath.Base
Base(path) ==
    IF Len(path) = 0 THEN "."
    ELSE LET p == StripSlashes(path)
         IN  IF Len(p) = 0 THEN "/" ELSE SubSeq(p, LastSlash(p) + 1, Len(p))

\* filepath.Ext: the suffix from the final dot of the final path element
Ext(path) ==
    LET D == {i \in (LastSlash(path) + 1)..Len(path) : SubSeq(path, i, i) = "."}
    IN  IF D = {} THEN ""
        ELSE SubSeq(path, CHOOSE i \in D : \A j \in D : j <= i, Len(path))

\* any element of the sequence subs occurs in s
ContainsAny(s, subs) == \E k \in 1..Len(subs) : Contains(s, subs[k])

\* any element of subs, lowercased, occurs in s
ContainsAnyFold(s, subs) == \E k \in 1..Len(subs) : Contains(s, ToLower(subs[k]))

(***************************************************************************)
(* the heuristic analyzer                                                  *)
(***************************************************************************)
riskPatterns == <<
    [pathContains |-> <<"auth", "login", "session", "token", "oauth", "jwt",
                        "credential", "password", "secret">>,
     contentContains |-> <<>>, score |-> 30,
     reason |-> "Touches authentication/authorization code"],
    [pathContains |-> <<"crypto", "encrypt", "decrypt", "hash", "cert", "tls", "ssl">>,
     contentContains |-> <<>>, score |-> 30,
     reason |-> "Touches cryptography/security code"],
    [pathContains |-> <<"migration", "schema", "database", "db">>,
     contentContains |-> <<"CREATE TABLE", "ALTER TABLE", "DROP TABLE",
                           "CREATE INDEX", "DROP INDEX">>,
     score |-> 25, reason |-> "Database schema or migration change"],
    [pathContains |-> <<>>,
     contentContains |-> <<"SELECT ", "INSERT ", "UPDATE ", "DELETE ", "exec(",
                           "raw(", "rawQuery", "execute(">>,
     score |-> 20, reason |-> "Contains raw SQL or query execution"],
    [pathContains |-> <<"api/", "routes", "handler", "controller", "endpoint",
                        "middleware">>,
     contentContains |-> <<>>, score |-> 20,
     reason |-> "Modifies public API surface or middleware"],
    [pathContains |-> <<"permission", "rbac", "role", "access", "policy", "acl">>,
     contentContains |-> <<>>, score |-> 25,
     reason |-> "Touches permission/access control logic"],
    [pathContains |-> <<>>,
     contentContains |-> <<"panic(", "os.Exit", "log.Fatal", "process.exit">>,
     score |-> 15, reason |-> "Contains abrupt termination calls"],
    [pathContains |-> <<".env", "config", "setting">>,
     contentContains |-> <<>>, score |-> 15,
     reason |-> "Configuration file change"],
    [pathContains |-> <<"docker", "k8s", "kubernetes", "deploy", "ci", "cd",
                        "pipeline", "terraform", ".tf">>,
     contentContains |-> <<>>, score |-> 15,
     reason |-> "Infrastructure/deployment configuration change"],
    [pathContains |-> <<"payment", "billing", "invoice", "stripe", "subscription",
                        "charge">>,
     contentContains |-> <<>>, score |-> 25,
     reason |-> "Touches payment/billing code"] >>

\* one pattern against the lowercased path and raw diff: the content
\* substrings are tried only when no path substring matched
PatternMatches(pattern, pathLower, contentLower) ==
    \/ ContainsAny(pathLower, pattern.pathContains)
    \/ ContainsAnyFold(contentLower, pattern.contentContains)

RECURSIVE PatternPass(_, _, _)
\* the loop over riskPatterns: the [score, reasons] accumulated by the
\* first k patterns, in table order
PatternPass(k, pathLower, contentLower) ==
    IF k = 0 THEN [score |-> 0, reasons |-> <<>>]
    ELSE LET acc == PatternPass(k - 1, pathLower, contentLower)
         IN  IF PatternMatches(riskPatterns[k], pathLower, contentLower)
             THEN [score |-> acc.score + riskPatterns[k].score,
                   reasons |-> Append(acc.reasons, riskPatterns[k].reason)]
             ELSE acc

\* size bonuses that add up: every threshold passed gives its bonus
SizeBonusCumulative(acc, totalLines) ==
    LET b3 == IF totalLines > 50
              THEN [score |-> acc.score + 5,
                    reasons |-> Append(acc.reasons, "Moderate change (50+ lines)")]
              ELSE acc
        b2 == IF totalLines > 100
              THEN [score |-> b3.score + 10,
                    reasons |-> Append(b3.reasons, "Medium-large change (100+ lines)")]
              ELSE b3
    IN  IF totalLines > 200
        THEN [score |-> b2.score + 15,
              reasons |-> Append(b2.reasons, "Large change (200+ lines)")]
        ELSE b2

\* the three mutually exclusive size bonuses
SizeBonus(acc, totalLines) ==
    IF totalLines > 200
    THEN [score |-> acc.score + 15,
          reasons |-> Append(acc.reasons, "Large change (200+ lines)")]
    ELSE IF totalLines > 100
    THEN [score |-> acc.score + 10,
          reasons |-> Append(acc.reasons, "Medium-large change (100+ lines)")]
    ELSE IF totalLines > 50
    THEN [score |-> acc.score + 5,
          reasons |-> Append(acc.reasons, "Moderate change (50+ lines)")]
    ELSE acc

\* the deletion-heavy penalty
RemovalPenalty(acc, f) ==
    IF f.LinesRemoved > f.LinesAdded * 2 /\ f.LinesRemoved > 10
    THEN [score |-> acc.score + 10,
          reasons |-> Append(acc.reasons, "Significant code removal")]
    ELSE acc

\* the removed-error-handling penalty
ErrorHandlingPenalty(acc, contentLower) ==
    IF ContainsAny(contentLower, <<"-\tif err", "- if err", "-\tcatch", "- catch",
                                   "-\texcept", "- except">>)
    THEN [score |-> acc.score + 15,
          reasons |-> Append(acc.reasons, "Removes error handling")]
    ELSE acc

\* the cap left out
CapScoreMissing(score) == score

\* "Cap score at 100"
CapScore(score) == IF score > 100 THEN 100 ELSE score

\* scoreFileRiskHeuristic: the [score, reasons] it stores in the file
scoreFileRiskHeuristic(f) ==
    LET pathLower    == ToLower(f.Path)
        contentLower == ToLower(f.RawDiff)
        a1 == PatternPass(Len(riskPatterns), pathLower, contentLower)
        a2 == SizeBonus(a1, f.LinesAdded + f.LinesRemoved)
        a3 == RemovalPenalty(a2, f)
        a4 == ErrorHandlingPenalty(a3, contentLower)
    IN  [score |-> CapScore(a4.score), reasons |-> a4.reasons]

configExts == {".yaml", ".yml", ".toml", ".json", ".ini", ".cfg", ".conf", ".env", ".tf"}

configFiles == {"dockerfile", "makefile", ".gitignore", ".dockerignore",
                "docker-compose.yml", "docker-compose.yaml"}

\* the decision list with the configuration rule ahead of the documentation rule
classifyConfigBeforeDocs(f) ==
    LET pathLower    == ToLower(f.Path)
        baseName     == ToLower(Base(f.Path))
        ext          == ToLower(Ext(f.Path))
        contentLower == ToLower(f.RawDiff)
        total        == f.LinesAdded + f.LinesRemoved
    IN  IF \/ ContainsAny(pathLower, <<"_test.", ".test.", ".spec.", "test/", "tests/",
                                       "__tests__/">>)
           \/ HasPrefix(baseName, "test_")
        THEN "test"
        ELSE IF \/ ext \in configExts
                \/ baseName \in configFiles
                \/ ContainsAny(pathLower, <<"config/", ".github/">>)
        THEN "config"
        ELSE IF \/ ext \in {".md", ".txt", ".rst", ".adoc"}
                \/ ContainsAny(pathLower, <<"docs/", "doc/">>)
                \/ baseName \in {"readme", "changelog", "license"}
        THEN "docs"
        ELSE IF ext \in {".css", ".scss", ".less", ".sass"}
        THEN "style"
        ELSE IF ContainsAny(contentLower, <<"fix", "bug", "patch", "hotfix">>)
        THEN "bugfix"
        ELSE IF f.Status = "added"
        THEN "feature"
        ELSE IF f.LinesAdded > 0 /\ f.LinesRemoved = 0
        THEN "feature"
        ELSE IF /\ f.LinesAdded > 0
                /\ f.LinesRemoved > 0
                /\ 10 * f.LinesAdded > 3 * total
                /\ 10 * f.LinesAdded < 7 * total
        THEN "refactor"
        ELSE "feature"

\* classifySemanticGroupHeuristic: the tag it stores in the file.  The ratio
\* test additions/(additions+removals) in (0.3, 0.7) is written in integers.
classifySemanticGroupHeuristic(f) ==
    LET pathLower    == ToLower(f.Path)
        baseName     == ToLower(Base(f.Path))
        ext          == ToLower(Ext(f.Path))
        contentLower == ToLower(f.RawDiff)
        total        == f.LinesAdded + f.LinesRemoved
    IN  IF \/ ContainsAny(pathLower, <<"_test.", ".test.", ".spec.", "test/", "tests/",
                                       "__tests__/">>)
           \/ HasPrefix(baseName, "test_")
        THEN "test"
        ELSE IF \/ ext \in {".md", ".txt", ".rst", ".adoc"}
                \/ ContainsAny(pathLower, <<"docs/", "doc/">>)
                \/ baseName \in {"readme", "changelog", "license"}
        THEN "docs"
        ELSE IF \/ ext \in configExts
                \/ baseName \in configFiles
                \/ ContainsAny(pathLower, <<"config/", ".github/">>)
        THEN "config"
        ELSE IF ext \in {".css", ".scss", ".less", ".sass"}
        THEN "style"
        ELSE IF ContainsAny(contentLower, <<"fix", "bug", "patch", "hotfix">>)
        THEN "bugfix"
        ELSE IF f.Status = "added"
        THEN "feature"
        ELSE IF f.LinesAdded > 0 /\ f.LinesRemoved = 0
        THEN "feature"
        ELSE IF /\ f.LinesAdded > 0
                /\ f.LinesRemoved > 0
                /\ 10 * f.LinesAdded > 3 * total
                /\ 10 * f.LinesAdded < 7 * total
        THEN "refactor"
        ELSE "feature"

(***************************************************************************)
(* helpers of the enrichment pipeline                                      *)
(***************************************************************************)
FallbackNotice == "AI analysis unavailable; using heuristic risk"

NoRisksPlaceholder == "No specific risks identified"

SemanticGroups == {"feature", "bugfix", "refactor", "test", "config", "docs", "style"}

\* the closure addReason of mergeReasons: the [merged, seen] it leaves after
\* one reason is offered
addReason(acc, reason) ==
    LET r   == TrimSpace(reason)
        key == ToLower(r)
    IN  IF r = "" THEN acc
        ELSE IF key \in acc.seen THEN acc
        ELSE [merged |-> Append(acc.merged, r), seen |-> acc.seen \cup {key}]

RECURSIVE addAll(_, _)
\* one range loop of mergeReasons
addAll(acc, reasons) ==
    IF Len(reasons) = 0 THEN acc
    ELSE addAll(addReason(acc, Head(reasons)), Tail(reasons))

\* mergeReasons: primary first, then secondary, capped at six
mergeReasons(primary, secondary) ==
    LET merged == addAll(addAll([merged |-> <<>>, seen |-> {}], primary), secondary).merged
    IN  IF Len(merged) > 6 THEN SubSeq(merged, 1, 6) ELSE merged

\* the tag only trimmed and lowercased, whatever it is
normalizeSemanticGroupAny(group) == ToLower(TrimSpace(group))

\* normalizeSemanticGroup
normalizeSemanticGroup(group) ==
    LET g == ToLower(TrimSpace(group))
    IN  IF g \in SemanticGroups THEN g ELSE ""

\* the two range checks on a risk score (ai.go 99-104, enrichRiskWithAI 384-389)
ClampScore(score) == IF score < 0 THEN 0 ELSE IF score > 100 THEN 100 ELSE score

(***************************************************************************)
(* bounds and inputs                                                       *)
(***************************************************************************)
\* the largest number of files of a change set
MaxFiles == 3

\* the parsed files a change set is drawn from, in path order
Catalog == <<
    [Path |-> "api/auth/crypto/db/role/config.go", Status |-> "modified",
     RawDiff |-> "-\tif err != nil {", LinesAdded |-> 2, LinesRemoved |-> 30],
    [Path |-> "app/styles.css", Status |-> "modified",
     RawDiff |-> "+color: red", LinesAdded |-> 6, LinesRemoved |-> 4],
    [Path |-> "auth/login.go", Status |-> "added",
     RawDiff |-> "+q := \"SELECT * FROM users\"", LinesAdded |-> 220, LinesRemoved |-> 0],
    [Path |-> "docs/README.md", Status |-> "modified",
     RawDiff |-> "+hello", LinesAdded |-> 1, LinesRemoved |-> 0] >>

\* the file lists ParseGitDiff can return: git lists the changed files in
\* path order, so a list is an increasing selection from Catalog
FileLists ==
    {s \in UNION {[1..n -> 1..Len(Catalog)] : n \in 0..MaxFiles} :
        \A i, j \in DOMAIN s : i < j => s[i] < s[j]}

\* no call made
NoCall == [kind |-> "none"]

\* the error of a call whose context is cancelled
Canceled == [kind |-> "err", err |-> "canceled"]

(***************************************************************************)
(* state                                                                   *)
(***************************************************************************)
VARIABLES
    provider,     \* cfg.AIProvider; "none" makes the AIClient nil
    entry,        \* "main" (AnalyzeDiff at startup) or "reload" (AnalyzeDiffHeuristics + AnalyzeDiffAI)
    pc,           \* position of the thread that runs the analysis
    input,        \* the parsed files, in parse order, as indices into Catalog; file i is
                  \* the DiffFile object made from Catalog[input[i]]
    file,         \* per DiffFile object its RiskScore, RiskReasons and SemanticGroup
    heur,         \* the values of file right after the heuristic pass
    dataFiles,    \* data.Files: the object ids in list order
    holder,       \* DiffHolder.data: "unset" before NewDiffHolder, "nil", or "data"
    aiAnalyzing,  \* DiffHolder.aiAnalyzing
    aiLastError,  \* DiffHolder.aiLastError
    concurrency,  \* enrichRiskWithAI: concurrency
    preflights,   \* number of Preflight calls made
    preflightErr, \* enrichRiskWithAI: preflightErr ("" is nil)
    failFast,     \* enrichRiskWithAI: failFast
    cancelled,    \* enrichRiskWithAI: ctx is cancelled
    failErr,      \* enrichRiskWithAI: failErr ("" is nil)
    sem,          \* enrichRiskWithAI: len(sem)
    next,         \* index of the file the dispatch loop is at
    wpc,          \* per file the position of its worker goroutine
    wres,         \* per file what the backend answers to its call (NoCall before)
    wout,         \* per file what AssessRiskWithContext returned ("" before)
    batchErr      \* the error enrichRiskWithAI returned ("" is nil)

VARIABLES
    scorer        \* the backend's behaviour when it is fixed in advance: per file the
                  \* answer to its call; <<>> leaves every answer open

\* the handlers that reload concurrently, their background goroutines, the
\* holder's lock and a client reading the holder
VARIABLES
    rpc,          \* per reload the position of its handler and then of its goroutine
    rkind,        \* per reload what ParseGitDiff gave it, until AnalyzeDiffAI has tested
                  \* it: "files", "empty", otherwise ""
    overlapped,   \* whether two reloads have been under way at the same time
    berr,         \* per reload the error its enrichRiskWithAI returned ("" is nil)
    lk,           \* per reload where it is inside a holder method: "out", "held", "written"
    handlerDone,  \* per reload whether its handler has returned
    muWriter,     \* DiffHolder.mu: the reload holding the write lock, 0 for none
    muReaders,    \* DiffHolder.mu: the number of read locks held
    gpc,          \* position of the client inside DiffHolder.Get
    got,          \* what the client's Get in progress has read ("none" outside a Get)
    last,         \* history: the most recently completed NewDiffHolder or Replace call
    gen           \* history: per reload the rank of its first Replace among the first
                  \* Replaces of all reloads (0 before it completes)

reloadVars == <<rpc, rkind, berr, lk, handlerDone, muWriter, muReaders, gpc, got, last, gen, overlapped>>

\* one parsed file taken through the two heuristic functions on its own
VARIABLES
    hfile,        \* the parsed DiffFile: Path, Status, RawDiff, LinesAdded, LinesRemoved
    hstep,        \* "parsed", then "scored", then "classified"
    hres          \* the RiskScore, RiskReasons and SemanticGroup stored in it so far

probeVars == <<hfile, hstep, hres>>

\* parseDiffOutput at work on one raw git diff output
VARIABLES
    raw,          \* the output of git diff that ParseGitDiff received
    parts,        \* parseDiffOutput: the elements of parts[1:] not yet parsed
    parsedFiles,  \* parseDiffOutput: files, and then data.Files
    ppc           \* "raw", then "files" (inside the range loop), then "parsed"

parserVars == <<raw, parts, parsedFiles, ppc>>

\* one request for the statistics of a snapshot
VARIABLES
    statsData,    \* the *DiffData handed to computeStats: whether it is nil, and its Files
    statsOut      \* the map computeStats returned (<<>> before)

statsVars == <<statsData, statsOut>>

\* the RepoManager, its store file and the requests calling Add and Select
VARIABLES
    repos,          \* RepoManager.repos: the Path (which is the ID) of each Repo
    currentRepoID,  \* RepoManager.currentRepoID
    store,          \* what persist() last wrote to the store file
    repoMu,         \* RepoManager.mu: the caller holding the write lock, 0 for none
    call            \* per caller the call it is making and where it is in it

repoVars == <<repos, currentRepoID, store, repoMu, call>>

\* the state of the parser, the statistics and the repository list
sideVars == <<parserVars, statsVars, repoVars>>

\* the state no step of the analysis writes
fixedVars == <<scorer, sideVars, reloadVars, probeVars>>

\* a nil *DiffData
NilData == [Nil |-> TRUE, Files |-> <<>>]

\* no diff is being parsed
NoParse ==
    /\ raw = ""
    /\ parts = <<>>
    /\ parsedFiles = <<>>
    /\ ppc = ""

\* no statistics are being computed
NoStats ==
    /\ statsData = NilData
    /\ statsOut = <<>>

\* no RepoManager is in play
NoRepos ==
    /\ repos = <<>>
    /\ currentRepoID = ""
    /\ store = <<>>
    /\ repoMu = 0
    /\ call = <<>>

\* parser, statistics and repository list are idle
NoSideRuns == NoParse /\ NoStats /\ NoRepos

\* no single file is being examined
NoProbe ==
    /\ hfile = <<>>
    /\ hstep = ""
    /\ hres = <<>>

\* no reload handler, client or holder lock is in play
NoReloads ==
    /\ rpc = <<>>
    /\ rkind = <<>>
    /\ berr = <<>>
    /\ overlapped = FALSE
    /\ lk = <<>>
    /\ handlerDone = <<>>
    /\ muWriter = 0
    /\ muReaders = 0
    /\ gpc = "idle"
    /\ got = "none"
    /\ last = <<>>
    /\ gen = <<>>

vars == <<provider, entry, pc, input, file, heur, dataFiles, holder, aiAnalyzing,
          aiLastError, concurrency, preflights, preflightErr, failFast, cancelled,
          failErr, sem, next, wpc, wres, wout, batchErr, fixedVars>>

holderVars == <<holder, aiAnalyzing, aiLastError>>

batchVars == <<concurrency, preflights, preflightErr, failFast, cancelled, failErr,
               sem, next, wpc, wres, wout, batchErr>>

N == Len(input)

Ids == 1..N

\* ai == nil
AINil == provider = "none"

\* AIClient.RiskConcurrency
RiskConcurrency(p) ==
    IF p = "none" THEN 1
    ELSE IF p = "lmstudio" THEN 1
    ELSE 3

\* the file list with the fallback notice merged into every file's reasons
\* (the loops at enrichRiskWithAI 328-330 and 405-407)
WithFallback(fs) ==
    [i \in DOMAIN fs |->
        [fs[i] EXCEPT !.RiskReasons = mergeReasons(@, <<FallbackNotice>>)]]

\* sort.Slice(files, less) with less = RiskScore descending: sort.Slice is not
\* stable, so any ordering of the ids that is descending in score can result
SortSlice(ids, fs) ==
    {p \in [DOMAIN ids -> {ids[k] : k \in DOMAIN ids}] :
        /\ \A i, j \in DOMAIN p : i # j => p[i] # p[j]
        /\ \A i, j \in DOMAIN p : i < j => fs[p[i]].RiskScore >= fs[p[j]].RiskScore}

Init ==
    /\ provider \in {"none", "claude", "lmstudio"}   \* the --ai flag: "none" gives a nil client
    /\ entry = "main"
    /\ pc = "boot"
    /\ input = <<>>
    /\ file = <<>>
    /\ heur = <<>>
    /\ dataFiles = <<>>
    /\ holder = "unset"
    /\ aiAnalyzing = FALSE
    /\ aiLastError = ""
    /\ concurrency = 0
    /\ preflights = 0
    /\ preflightErr = ""
    /\ failFast = FALSE
    /\ cancelled = FALSE
    /\ failErr = ""
    /\ sem = 0
    /\ next = 1
    /\ wpc = <<>>
    /\ wres = <<>>
    /\ wout = <<>>
    /\ batchErr = ""
    /\ scorer = <<>>
    /\ NoReloads
    /\ NoProbe
    /\ NoSideRuns

\* the loop "scoreFileRiskHeuristic(file); classifySemanticGroupHeuristic(file)"
\* over freshly parsed files
HeuristicPass(fl) ==
    [i \in DOMAIN fl |->
        LET h == scoreFileRiskHeuristic(Catalog[fl[i]])
        IN  [RiskScore |-> h.score, RiskReasons |-> h.reasons,
             SemanticGroup |-> classifySemanticGroupHeuristic(Catalog[fl[i]])]]

\* ParseGitDiff returned the files fl and the heuristic loop ran over them
Analyzed(fl) ==
    /\ input' = fl
    /\ file' = HeuristicPass(fl)
    /\ heur' = HeuristicPass(fl)
    /\ dataFiles' = [i \in DOMAIN fl |-> i]
    /\ wpc' = [i \in DOMAIN fl |-> "idle"]
    /\ wres' = [i \in DOMAIN fl |-> NoCall]
    /\ wout' = [i \in DOMAIN fl |-> ""]

\* main(): a repository is selected; ParseGitDiff, then AnalyzeDiff up to its
\* call of enrichRiskWithAI
MainAnalyze ==
    /\ pc = "boot"
    /\ \E fl \in FileLists : Analyzed(fl)
    /\ pc' = IF AINil THEN "returned" ELSE "enrich"
    /\ UNCHANGED <<provider, entry, concurrency, preflights, preflightErr, failFast,
                   cancelled, failErr, sem, next, batchErr>>
    /\ UNCHANGED holderVars
    /\ UNCHANGED fixedVars

\* main(): AnalyzeDiff's sort after enrichRiskWithAI, then NewDiffHolder(diffData)
MainFinish ==
    /\ pc = "returned"
    /\ entry = "main"
    /\ dataFiles' \in SortSlice(dataFiles, file)
    /\ holder' = "data"
    /\ pc' = "done"
    /\ UNCHANGED <<provider, entry, input, file, heur, aiAnalyzing, aiLastError>>
    /\ UNCHANGED batchVars
    /\ UNCHANGED fixedVars

\* main(): no repository selected; NewDiffHolder(nil)
MainNoRepo ==
    /\ pc = "boot"
    /\ holder' = "nil"
    /\ pc' = "serving"
    /\ UNCHANGED <<provider, entry, input, file, heur, dataFiles, aiAnalyzing,
                   aiLastError>>
    /\ UNCHANGED batchVars
    /\ UNCHANGED fixedVars

\* reloadCurrentRepo / the /api/diff/reload handler with a repository:
\* ParseGitDiff, AnalyzeDiffHeuristics, holder.Replace, and with an AI client
\* the flags and the go statement
Reload ==
    /\ pc = "serving"
    /\ \E fl \in FileLists : Analyzed(fl)
    /\ entry' = "reload"
    /\ holder' = "data"
    /\ aiAnalyzing' = IF AINil THEN aiAnalyzing ELSE TRUE
    /\ aiLastError' = IF AINil THEN aiLastError ELSE ""
    /\ pc' = IF AINil THEN "done" ELSE "aiEntry"
    /\ UNCHANGED <<provider, concurrency, preflights, preflightErr, failFast,
                   cancelled, failErr, sem, next, batchErr>>
    /\ UNCHANGED fixedVars

\* AnalyzeDiffAI 133-141: the early return and the copy of the slice of
\* pointers (files[i] = data.Files[i]: the same DiffFile objects)
AIStart ==
    /\ pc = "aiEntry"
    /\ pc' = IF N = 0 THEN "clearFlag" ELSE "enrich"
    /\ UNCHANGED <<provider, entry, input, file, heur, dataFiles>>
    /\ UNCHANGED holderVars
    /\ UNCHANGED batchVars
    /\ UNCHANGED fixedVars

(***************************************************************************)
(* enrichRiskWithAI                                                        *)
(***************************************************************************)
\* what AIClient.Preflight can return for a non-nil client ("" is nil): the
\* LM Studio check depends on the endpoint, ollama and claude return nil,
\* any other provider name is an error
PreflightResults(p) ==
    IF p = "lmstudio" THEN {"", "preflight"}
    ELSE IF p \in {"ollama", "claude"} THEN {""}
    ELSE {"preflight"}

\* a failed preflight that marks the files but goes on to dispatch
PreflightNoAbort ==
    /\ pc = "enrich"
    /\ concurrency' = IF RiskConcurrency(provider) < 1 THEN 1 ELSE RiskConcurrency(provider)
    /\ preflights' = preflights + 1
    /\ \E e \in PreflightResults(provider) :
        /\ preflightErr' = e
        /\ file' = IF e # "" THEN WithFallback(file) ELSE file
        /\ pc' = "dispatch"
        /\ UNCHANGED batchErr
    /\ UNCHANGED <<provider, entry, input, heur, dataFiles, failFast, cancelled,
                   failErr, sem, next, wpc, wres, wout>>
    /\ UNCHANGED holderVars
    /\ UNCHANGED fixedVars

\* enrichRiskWithAI 318-332: the concurrency, the one Preflight call and the
\* abort of the batch when it fails
Preflight ==
    /\ pc = "enrich"
    /\ concurrency' = IF RiskConcurrency(provider) < 1 THEN 1 ELSE RiskConcurrency(provider)
    /\ preflights' = preflights + 1
    /\ \E e \in PreflightResults(provider) :
        /\ preflightErr' = e
        /\ IF e # ""
           THEN /\ file' = WithFallback(file)
                /\ batchErr' = e
                /\ pc' = "returned"
           ELSE /\ pc' = "dispatch"
                /\ UNCHANGED <<file, batchErr>>
    /\ UNCHANGED <<provider, entry, input, heur, dataFiles, failFast, cancelled,
                   failErr, sem, next, wpc, wres, wout>>
    /\ UNCHANGED holderVars
    /\ UNCHANGED fixedVars

\* the head of the dispatch loop (351-356): the range test and the failFast
\* test that breaks out of it
DispatchCheck ==
    /\ pc = "dispatch"
    /\ pc' = IF next > N \/ failFast THEN "join" ELSE "acquire"
    /\ UNCHANGED <<provider, entry, input, file, heur, dataFiles>>
    /\ UNCHANGED holderVars
    /\ UNCHANGED batchVars
    /\ UNCHANGED fixedVars

\* the go statement without the semaphore
DispatchSpawnNoSem ==
    /\ pc = "acquire"
    /\ sem' = sem + 1
    /\ wpc' = [wpc EXCEPT ![next] = "check"]
    /\ next' = next + 1
    /\ pc' = "dispatch"
    /\ UNCHANGED <<provider, entry, input, file, heur, dataFiles, concurrency,
                   preflights, preflightErr, failFast, cancelled, failErr, wres, wout,
                   batchErr>>
    /\ UNCHANGED holderVars
    /\ UNCHANGED fixedVars

\* "sem <- struct{}{}" (blocks while the channel is full) and the go statement
DispatchSpawn ==
    /\ pc = "acquire"
    /\ sem < concurrency
    /\ sem' = sem + 1
    /\ wpc' = [wpc EXCEPT ![next] = "check"]
    /\ next' = next + 1
    /\ pc' = "dispatch"
    /\ UNCHANGED <<provider, entry, input, file, heur, dataFiles, concurrency,
                   preflights, preflightErr, failFast, cancelled, failErr, wres, wout,
                   batchErr>>
    /\ UNCHANGED holderVars
    /\ UNCHANGED fixedVars

\* the worker's own failFast test (363-365); returning runs the deferred
\* "<-sem" and wg.Done()
WorkerCheck(i) ==
    /\ wpc[i] = "check"
    /\ IF failFast
       THEN /\ wpc' = [wpc EXCEPT ![i] = "done"]
            /\ sem' = sem - 1
       ELSE /\ wpc' = [wpc EXCEPT ![i] = "call"]
            /\ UNCHANGED sem
    /\ UNCHANGED <<provider, entry, pc, input, file, heur, dataFiles, concurrency,
                   preflights, preflightErr, failFast, cancelled, failErr, next, wres,
                   wout, batchErr>>
    /\ UNCHANGED holderVars
    /\ UNCHANGED fixedVars

\* what the backend can answer to the call for file i: a failure of the call
\* (timeout, unparsable body) or the decoded JSON object
Answers(i) ==
    LET Responses == {
        [kind |-> "err", err |-> "timeout"],
        [kind |-> "err", err |-> "malformed"],
        [kind |-> "ok", RiskScore |-> 150, Reasons |-> <<>>,
         SemanticGroup |-> "bogus", Confidence |-> "high"],
        [kind |-> "ok", RiskScore |-> -5, Reasons |-> <<"Risky", "risky">>,
         SemanticGroup |-> " Docs ", Confidence |-> ""],
        [kind |-> "ok", RiskScore |-> 40,
         Reasons |-> <<"r1", "r2", "r3", "r4", "r5", "r6", "r7">>,
         SemanticGroup |-> "test", Confidence |-> "low"] }
    IN  IF i \in DOMAIN scorer THEN {scorer[i]} ELSE Responses

\* 367-368: the call of AssessRiskWithContext begins.  The request is made
\* with a context derived from ctx: when ctx is already cancelled the call
\* fails at once, otherwise the backend will answer with one of Responses.
WorkerCall(i) ==
    /\ wpc[i] = "call"
    /\ wpc' = [wpc EXCEPT ![i] = "inflight"]
    /\ IF cancelled
       THEN wres' = [wres EXCEPT ![i] = Canceled]
       ELSE \E r \in Answers(i) : wres' = [wres EXCEPT ![i] = r]
    /\ UNCHANGED <<provider, entry, pc, input, file, heur, dataFiles, concurrency,
                   preflights, preflightErr, failFast, cancelled, failErr, sem, next,
                   wout, batchErr>>
    /\ UNCHANGED holderVars
    /\ UNCHANGED fixedVars

\* setFail without failOnce: every failure stores its error
SetFailLastWins(err) ==
    /\ failErr' = err
    /\ failFast' = TRUE
    /\ cancelled' = TRUE

\* setFail: under failOnce, failErr = err; failFast.Store(true); cancel().
\* failOnce has fired exactly when failFast is set.
SetFail(err) ==
    /\ failErr' = IF failFast THEN failErr ELSE err
    /\ failFast' = TRUE
    /\ cancelled' = TRUE

\* the error branch of the worker (370-375) and its deferred calls
WorkerFailed(i, err) ==
    /\ file' = [file EXCEPT ![i].RiskReasons = mergeReasons(@, <<FallbackNotice>>)]
    /\ SetFail(err)
    /\ wout' = [wout EXCEPT ![i] = err]
    /\ wpc' = [wpc EXCEPT ![i] = "done"]
    /\ sem' = sem - 1

\* AssessRiskWithContext 93-106: the decoded assessment with its score clamped
ParseAssessment(r) == [r EXCEPT !.RiskScore = ClampScore(@)]

\* the assignment left out: the file keeps the score it had
AssignScoreKept(f, a) == f

\* "f.RiskScore = assessment.RiskScore" (383)
AssignScore(f, a) == [f EXCEPT !.RiskScore = a.RiskScore]

\* a success branch that adds the AI reasons to the reasons the file has
FinishApplyMerged(f, a) ==
    [RiskScore |-> ClampScore(f.RiskScore),
     RiskReasons |-> f.RiskReasons \o a.Reasons,
     SemanticGroup |-> IF normalizeSemanticGroup(a.SemanticGroup) # ""
                       THEN normalizeSemanticGroup(a.SemanticGroup)
                       ELSE f.SemanticGroup]

\* 384-399: the range checks on f.RiskScore, the reasons and the group
FinishApply(f, a) ==
    [RiskScore |-> ClampScore(f.RiskScore),
     RiskReasons |-> IF Len(a.Reasons) > 0 THEN a.Reasons ELSE <<NoRisksPlaceholder>>,
     SemanticGroup |-> IF normalizeSemanticGroup(a.SemanticGroup) # ""
                       THEN normalizeSemanticGroup(a.SemanticGroup)
                       ELSE f.SemanticGroup]

\* AssessRiskWithContext returns what the backend answered: an error takes
\* the error branch, an assessment is assigned to the file (383).  The
\* branch for a nil assessment (376-381) is never taken: AssessRiskWithContext
\* returns either an error or a non-nil assessment.
WorkerReturn(i) ==
    /\ wpc[i] = "inflight"
    /\ IF wres[i].kind = "err"
       THEN /\ WorkerFailed(i, wres[i].err)
       ELSE /\ file' = [file EXCEPT ![i] = AssignScore(@, ParseAssessment(wres[i]))]
            /\ wout' = [wout EXCEPT ![i] = "ok"]
            /\ wpc' = [wpc EXCEPT ![i] = "clamp"]
            /\ UNCHANGED <<failErr, failFast, cancelled, sem>>
    /\ UNCHANGED <<provider, entry, pc, input, heur, dataFiles, concurrency,
                   preflights, preflightErr, next, wres, batchErr>>
    /\ UNCHANGED holderVars
    /\ UNCHANGED fixedVars

\* ctx was cancelled while the request was in flight: the HTTP client gives
\* the request up and AssessRiskWithContext returns the context's error
WorkerAborted(i) ==
    /\ wpc[i] = "inflight"
    /\ cancelled
    /\ WorkerFailed(i, Canceled.err)
    /\ UNCHANGED <<provider, entry, pc, input, heur, dataFiles, concurrency,
                   preflights, preflightErr, next, wres, batchErr>>
    /\ UNCHANGED holderVars
    /\ UNCHANGED fixedVars

\* the rest of the success branch without the deferred "<-sem"
WorkerApplyNoRelease(i) ==
    /\ wpc[i] = "clamp"
    /\ file' = [file EXCEPT ![i] = FinishApply(@, ParseAssessment(wres[i]))]
    /\ wpc' = [wpc EXCEPT ![i] = "done"]
    /\ UNCHANGED <<provider, entry, pc, input, heur, dataFiles, concurrency,
                   preflights, preflightErr, failFast, cancelled, failErr, next, wres,
                   wout, batchErr, sem>>
    /\ UNCHANGED holderVars
    /\ UNCHANGED fixedVars

\* the rest of the success branch (384-399) and the deferred calls
WorkerApply(i) ==
    /\ wpc[i] = "clamp"
    /\ file' = [file EXCEPT ![i] = FinishApply(@, ParseAssessment(wres[i]))]
    /\ wpc' = [wpc EXCEPT ![i] = "done"]
    /\ sem' = sem - 1
    /\ UNCHANGED <<provider, entry, pc, input, heur, dataFiles, concurrency,
                   preflights, preflightErr, failFast, cancelled, failErr, next, wres,
                   wout, batchErr>>
    /\ UNCHANGED holderVars
    /\ UNCHANGED fixedVars

\* the fallback-notice pass and the return without wg.Wait()
JoinNoWait ==
    /\ pc = "join"
    /\ file' = IF failErr # "" THEN WithFallback(file) ELSE file
    /\ batchErr' = failErr
    /\ pc' = "returned"
    /\ UNCHANGED <<provider, entry, input, heur, dataFiles, concurrency, preflights,
                   preflightErr, failFast, cancelled, failErr, sem, next, wpc, wres, wout>>
    /\ UNCHANGED holderVars
    /\ UNCHANGED fixedVars

\* wg.Wait() and 404-412: the fallback-notice pass of a failed batch and the
\* returned error
Join ==
    /\ pc = "join"
    /\ \A i \in Ids : wpc[i] \in {"idle", "done"}
    /\ file' = IF failErr # "" THEN WithFallback(file) ELSE file
    /\ batchErr' = failErr
    /\ pc' = "returned"
    /\ UNCHANGED <<provider, entry, input, heur, dataFiles, concurrency, preflights,
                   preflightErr, failFast, cancelled, failErr, sem, next, wpc, wres, wout>>
    /\ UNCHANGED holderVars
    /\ UNCHANGED fixedVars

\* a SetAILastError after the batch that also clears the analyzing flag
PublishErrorClearsFlag ==
    /\ pc = "returned"
    /\ entry = "reload"
    /\ aiLastError' = TrimSpace(batchErr)
    /\ aiAnalyzing' = FALSE
    /\ pc' = "sort"
    /\ UNCHANGED <<provider, entry, input, file, heur, dataFiles, holder>>
    /\ UNCHANGED batchVars
    /\ UNCHANGED fixedVars

(***************************************************************************)
(* AnalyzeDiffAI after the batch, the holder and its readers               *)
(***************************************************************************)
\* AnalyzeDiffAI 144-150: holder.SetAILastError
PublishError ==
    /\ pc = "returned"
    /\ entry = "reload"
    /\ aiLastError' = TrimSpace(batchErr)
    /\ pc' = "sort"
    /\ UNCHANGED <<provider, entry, input, file, heur, dataFiles, holder, aiAnalyzing>>
    /\ UNCHANGED batchVars
    /\ UNCHANGED fixedVars

\* AnalyzeDiffAI 153-158: sort.Slice(files) and "data.Files = files"
SortAssign ==
    /\ pc = "sort"
    /\ dataFiles' \in SortSlice(dataFiles, file)
    /\ pc' = "replace"
    /\ UNCHANGED <<provider, entry, input, file, heur>>
    /\ UNCHANGED holderVars
    /\ UNCHANGED batchVars
    /\ UNCHANGED fixedVars

\* AnalyzeDiffAI 161: holder.Replace(data)
Replace ==
    /\ pc = "replace"
    /\ holder' = "data"
    /\ pc' = "clearFlag"
    /\ UNCHANGED <<provider, entry, input, file, heur, dataFiles, aiAnalyzing,
                   aiLastError>>
    /\ UNCHANGED batchVars
    /\ UNCHANGED fixedVars

\* the goroutine of the reload: holder.SetAIAnalyzing(false)
ClearAnalyzing ==
    /\ pc = "clearFlag"
    /\ aiAnalyzing' = FALSE
    /\ pc' = "done"
    /\ UNCHANGED <<provider, entry, input, file, heur, dataFiles, holder, aiLastError>>
    /\ UNCHANGED batchVars
    /\ UNCHANGED fixedVars

\* DiffHolder.Get: the pointer a reader obtains now
HolderGet == holder

\* the files a reader sees through the pointer Get returned: the objects of
\* data.Files as they are now (the reader reads them without a lock)
ReaderView == [k \in DOMAIN dataFiles |-> file[dataFiles[k]]]

Next ==
    \/ MainAnalyze
    \/ MainFinish
    \/ MainNoRepo
    \/ Reload
    \/ AIStart
    \/ Preflight
    \/ DispatchCheck
    \/ DispatchSpawn
    \/ \E i \in Ids : WorkerCheck(i)
    \/ \E i \in Ids : WorkerCall(i)
    \/ \E i \in Ids : WorkerReturn(i)
    \/ \E i \in Ids : WorkerAborted(i)
    \/ \E i \in Ids : WorkerApply(i)
    \/ Join
    \/ PublishError
    \/ SortAssign
    \/ Replace
    \/ ClearAnalyzing

Spec == Init /\ [][Next]_vars

(***************************************************************************)
(* properties                                                              *)
(***************************************************************************)
\* the positions of a background batch before AnalyzeDiffAI's holder.Replace
BeforeReplace == {"aiEntry", "enrich", "dispatch", "acquire", "join", "returned",
                  "sort", "replace"}

\* the positions after enrichRiskWithAI has returned
AfterBatch == {"returned", "sort", "replace", "clearFlag", "done"}

HasNotice(reasons) == \E k \in DOMAIN reasons : reasons[k] = FallbackNotice

\* C1: while a background batch runs, the files of the snapshot holder.Get()
\* returns show their pre-batch riskScore, riskReasons and semanticGroup, in
\* the pre-batch order, until the batch's Replace.
C1_NoHalfUpdate ==
    (entry = "reload" /\ HolderGet = "data" /\ pc \in BeforeReplace) => ReaderView = heur

\* the calls that were made and failed
FailedCalls == {i \in Ids : wout[i] \notin {"", "ok"}}

\* C2: when exactly one of the N per-file calls failed and the other N-1
\* succeeded, after enrichRiskWithAI returns every successful file has the
\* AI-derived score, all N files carry the fallback notice and the error is
\* non-nil.
C2_OneFailure ==
    (/\ pc = "returned"
     /\ Cardinality(FailedCalls) = 1
     /\ \A i \in Ids : wout[i] # "")
    => /\ \A i \in Ids : wout[i] = "ok" => file[i].RiskScore = ClampScore(wres[i].RiskScore)
       /\ \A i \in Ids : HasNotice(file[i].RiskReasons)
       /\ batchErr # ""

C4_NoCallAfterTrip ==
    [][(failFast /\ cancelled) =>
          \A i \in DOMAIN wpc : ~(wpc[i] = "call" /\ wpc'[i] = "inflight")]_vars

\* C5: after a failed preflight every file carries the fallback notice and
\* has the score and group of the heuristic pass.
C5_PreflightFallback ==
    (pc = "returned" /\ preflightErr # "")
    => \A i \in Ids :
          /\ HasNotice(file[i].RiskReasons)
          /\ file[i].RiskScore = heur[i].RiskScore
          /\ file[i].SemanticGroup = heur[i].SemanticGroup

\* enrichRiskWithAI has got past its preflight check
BatchRan ==
    \/ pc \in {"dispatch", "acquire", "join"}
    \/ pc \in AfterBatch /\ ~AINil /\ ~(entry = "reload" /\ N = 0)

\* C6: a batch makes exactly one preflight check, before any per-file call;
\* after a failed preflight no worker is started, no call is made and the
\* batch returns the preflight error.
C6_PreflightFirst ==
    /\ preflights <= 1
    /\ BatchRan => preflights = 1
    /\ (\E i \in Ids : wpc[i] # "idle" \/ wres[i] # NoCall)
       => (preflights = 1 /\ preflightErr = "")
    /\ preflightErr # ""
       => /\ \A i \in Ids : wpc[i] = "idle" /\ wres[i] = NoCall /\ wout[i] = ""
          /\ pc \in AfterBatch
          /\ batchErr = preflightErr

\* a failed preflight of a batch with files
C6_Witness == pc = "returned" /\ preflightErr # "" /\ preflights = 1 /\ N >= 2

\* the per-file calls in flight
InFlight == {i \in Ids : wpc[i] = "inflight"}

\* C7: at most RiskConcurrency() per-file calls are in flight: 1 for
\* lmstudio and a nil client, 3 otherwise, and never less than 1.
C7_ConcurrencyBound ==
    /\ Cardinality(InFlight) <= (IF provider \in {"lmstudio", "none"} THEN 1 ELSE 3)
    /\ pc \in {"dispatch", "acquire", "join"}
       => /\ concurrency >= 1
          /\ concurrency = (IF provider \in {"lmstudio", "none"} THEN 1 ELSE 3)

\* the budget is used up: three calls in flight
C7_Witness == Cardinality(InFlight) = 3 /\ concurrency = 3

\* C8: after an analysis pass (AnalyzeDiffHeuristics published by a reload,
\* AnalyzeDiff at startup, AnalyzeDiffAI) the file list is sorted by
\* riskScore descending and files of equal score are in their original order.
C8_SortedStable ==
    (pc \in {"aiEntry", "done"})
    => \A k, l \in DOMAIN dataFiles :
          k < l => /\ file[dataFiles[k]].RiskScore >= file[dataFiles[l]].RiskScore
                   /\ (file[dataFiles[k]].RiskScore = file[dataFiles[l]].RiskScore
                       => dataFiles[k] < dataFiles[l])

\* C9: every file's riskReasons has at most 6 entries and no two entries
\* that are equal ignoring case.
C9_ReasonsDedupCapped ==
    \A i \in Ids :
        /\ Len(file[i].RiskReasons) <= 6
        /\ \A k, l \in DOMAIN file[i].RiskReasons :
              k # l => ToLower(file[i].RiskReasons[k]) # ToLower(file[i].RiskReasons[l])

\* C10: every file's riskScore is between 0 and 100.
C10_ScoreRange == \A i \in Ids : file[i].RiskScore >= 0 /\ file[i].RiskScore <= 100

\* a heuristic sum above 100 was capped, and an AI score above 100 and one
\* below 0 were applied
C10_Witness ==
    /\ \E i \in Ids : heur[i].RiskScore = 100 /\ Len(heur[i].RiskReasons) > 6
    /\ \E i \in Ids : /\ wpc[i] = "done" /\ wout[i] = "ok"
                      /\ wres[i].RiskScore > 100 /\ file[i].RiskScore = 100
    /\ \E i \in Ids : /\ wpc[i] = "done" /\ wout[i] = "ok"
                      /\ wres[i].RiskScore < 0 /\ file[i].RiskScore = 0

\* C11: once the heuristic pass has run, and through every outcome of the
\* enrichment, each file's semantic group is one of the seven known tags; a
\* file whose AI assessment was applied with a tag that, trimmed and
\* lowercased, is none of the seven still carries its heuristic tag.
C11_GroupKnown ==
    \A i \in Ids :
        /\ file[i].SemanticGroup \in SemanticGroups
        /\ heur[i].SemanticGroup \in SemanticGroups
        /\ (wpc[i] = "done" /\ wout[i] = "ok"
              /\ ToLower(TrimSpace(wres[i].SemanticGroup)) \notin SemanticGroups)
            => file[i].SemanticGroup = heur[i].SemanticGroup

\* C11: one applied assessment carried the unknown tag "bogus" and another
\* the tag " Docs ", which replaced a different heuristic tag by "docs"
C11_Witness ==
    /\ pc \in AfterBatch
    /\ \E i \in Ids : /\ wpc[i] = "done" /\ wout[i] = "ok"
                      /\ wres[i].SemanticGroup = "bogus"
                      /\ file[i].SemanticGroup = heur[i].SemanticGroup
    /\ \E j \in Ids : /\ wpc[j] = "done" /\ wout[j] = "ok"
                      /\ wres[j].SemanticGroup = " Docs "
                      /\ heur[j].SemanticGroup # "docs"
                      /\ file[j].SemanticGroup = "docs"

\* the number of entries of a reasons list that are the fallback notice
NoticeCount(reasons) == Cardinality({k \in DOMAIN reasons : reasons[k] = FallbackNotice})

\* C12: once a batch that failed after dispatch has been joined, every file of
\* the batch (updated, failed or never dispatched) carries the fallback notice
\* exactly once, and the error returned is the one the first failure stored
\* in failErr, which is the error of one of the failed calls.
C12_FailedBatchMarked ==
    (pc \in AfterBatch /\ preflightErr = "" /\ failErr # "") =>
        /\ \A i \in Ids : NoticeCount(file[i].RiskReasons) = 1
        /\ batchErr = failErr
        /\ \E i \in Ids : wout[i] = batchErr

(***************************************************************************)
(* one batch of five files, three calls at a time, one call timing out     *)
(***************************************************************************)
\* the five parsed files of the batch, in path order
Batch5 == <<
    Catalog[1], Catalog[2], Catalog[3],
    [Path |-> "cmd/main.go", Status |-> "modified",
     RawDiff |-> "+run()", LinesAdded |-> 3, LinesRemoved |-> 1],
    Catalog[4] >>

\* the call that times out
TimedOut == [kind |-> "err", err |-> "timeout"]

\* the assessment the backend gives when the call succeeds
Scored == [kind |-> "ok", RiskScore |-> 40, Reasons |-> <<"r1">>,
           SemanticGroup |-> "refactor", Confidence |-> "high"]

\* the heuristic loop over the files of Batch5
HeuristicBatch5 ==
    [i \in DOMAIN Batch5 |->
        LET h == scoreFileRiskHeuristic(Batch5[i])
        IN  [RiskScore |-> h.score, RiskReasons |-> h.reasons,
             SemanticGroup |-> classifySemanticGroupHeuristic(Batch5[i])]]

\* a reload with the claude provider (RiskConcurrency 3) has parsed Batch5,
\* scored it heuristically, installed it and started the background batch;
\* input numbers the files of Batch5
InitBatch5 ==
    /\ provider = "claude"
    /\ entry = "reload"
    /\ pc = "aiEntry"
    /\ input = [i \in DOMAIN Batch5 |-> i]
    /\ file = HeuristicBatch5
    /\ heur = HeuristicBatch5
    /\ dataFiles = [i \in DOMAIN Batch5 |-> i]
    /\ holder = "data"
    /\ aiAnalyzing = TRUE
    /\ aiLastError = ""
    /\ concurrency = 0
    /\ preflights = 0
    /\ preflightErr = ""
    /\ failFast = FALSE
    /\ cancelled = FALSE
    /\ failErr = ""
    /\ sem = 0
    /\ next = 1
    /\ wpc = [i \in DOMAIN Batch5 |-> "idle"]
    /\ wres = [i \in DOMAIN Batch5 |-> NoCall]
    /\ wout = [i \in DOMAIN Batch5 |-> ""]
    /\ batchErr = ""
    /\ scorer \in {[i \in DOMAIN Batch5 |-> IF i = k THEN TimedOut ELSE Scored] :
                      k \in DOMAIN Batch5}   \* the call fails for exactly one file
    /\ NoReloads
    /\ NoProbe
    /\ NoSideRuns

NextBatch5 ==
    \/ AIStart
    \/ Preflight
    \/ DispatchCheck
    \/ DispatchSpawn
    \/ \E i \in Ids : WorkerCheck(i)
    \/ \E i \in Ids : WorkerCall(i)
    \/ \E i \in Ids : WorkerReturn(i)
    \/ \E i \in Ids : WorkerAborted(i)
    \/ \E i \in Ids : WorkerApply(i)
    \/ Join
    \/ PublishError
    \/ SortAssign
    \/ Replace
    \/ ClearAnalyzing

SpecBatch5 == InitBatch5 /\ [][NextBatch5]_vars

\* the files that ended with the score of an applied AI assessment
AIScored == {i \in Ids : wout[i] = "ok" /\ file[i].RiskScore = Scored.RiskScore}

\* the files that ended with their heuristic score
HeuristicScored == {i \in Ids : wout[i] # "ok" /\ file[i].RiskScore = heur[i].RiskScore}

MaxReloads == 2

Reloads == 1..MaxReloads

\* the *DiffData that reload r parses
Snap(r) == "d" \o ToString(r)

\* the variables of one analysis run, which the reload model leaves alone:
\* a background batch is the two steps BatchPreflight and BatchScore
analysisVars == <<entry, pc, input, file, heur, dataFiles, batchVars, scorer, sideVars,
                  probeVars>>

\* main() has built the holder, over the startup snapshot "d0" or over nil,
\* and the server is serving, without an AI client or with one whose
\* Preflight can fail (a provider whose Preflight always passes behaves as
\* this one does when it passes)
InitReloads ==
    /\ provider \in {"none", "lmstudio"}
    /\ entry = "main"
    /\ pc = "serving"
    /\ input = <<>>
    /\ file = <<>>
    /\ heur = <<>>
    /\ dataFiles = <<>>
    /\ holder \in {"nil", "d0"}
    /\ aiAnalyzing = FALSE
    /\ aiLastError = ""
    /\ concurrency = 0
    /\ preflights = 0
    /\ preflightErr = ""
    /\ failFast = FALSE
    /\ cancelled = FALSE
    /\ failErr = ""
    /\ sem = 0
    /\ next = 1
    /\ wpc = <<>>
    /\ wres = <<>>
    /\ wout = <<>>
    /\ batchErr = ""
    /\ scorer = <<>>
    /\ rpc = [r \in Reloads |-> "idle"]
    /\ rkind = [r \in Reloads |-> ""]
    /\ berr = [r \in Reloads |-> ""]
    /\ lk = [r \in Reloads |-> "out"]
    /\ handlerDone = [r \in Reloads |-> FALSE]
    /\ muWriter = 0
    /\ muReaders = 0
    /\ gpc = "idle"
    /\ got = "none"
    /\ last = [by |-> 0, at |-> "new", data |-> holder]
    /\ gen = [r \in Reloads |-> 0]
    /\ overlapped = FALSE
    /\ NoProbe
    /\ NoSideRuns

\* reloadCurrentRepo finds no current repository and goes on to Replace(nil)
ReloadNoRepo(r) ==
    /\ rpc[r] = "idle"
    /\ rpc' = [rpc EXCEPT ![r] = "installNil"]
    /\ overlapped' = (overlapped \/ \E q \in Reloads \ {r} : rpc[q] \notin {"idle", "done"})
    /\ UNCHANGED <<provider, holderVars, analysisVars, rkind, berr, lk, handlerDone,
                   muWriter, muReaders, gpc, got, last, gen>>

\* ParseGitDiff fails: the handler returns the error, the holder is untouched
ReloadParseFails(r) ==
    /\ rpc[r] = "idle"
    /\ rpc' = [rpc EXCEPT ![r] = "done"]
    /\ handlerDone' = [handlerDone EXCEPT ![r] = TRUE]
    /\ UNCHANGED <<provider, holderVars, analysisVars, rkind, berr, lk, muWriter,
                   muReaders, gpc, got, last, gen, overlapped>>

\* ParseGitDiff and AnalyzeDiffHeuristics give a DiffData, with or without
\* files; the handler goes on to holder.Replace(diffData)
ReloadParsed(r) ==
    /\ rpc[r] = "idle"
    /\ \E k \in {"files", "empty"} : rkind' = [rkind EXCEPT ![r] = k]
    /\ rpc' = [rpc EXCEPT ![r] = "install"]
    /\ overlapped' = (overlapped \/ \E q \in Reloads \ {r} : rpc[q] \notin {"idle", "done"})
    /\ UNCHANGED <<provider, holderVars, analysisVars, berr, lk, handlerDone,
                   muWriter, muReaders, gpc, got, last, gen>>

\* the positions at which a reload is calling a holder method that writes
ReplaceCalls == {"installNil", "install", "publish"}

FlagCalls == {"setFlag", "clearFlag"}

ErrorCalls == {"clearErr", "setErr"}

\* h.mu.Lock() at the head of Replace, SetAIAnalyzing and SetAILastError
HolderLock(r) ==
    /\ rpc[r] \in ReplaceCalls \cup FlagCalls \cup ErrorCalls
    /\ lk[r] = "out"
    /\ muWriter = 0
    /\ muReaders = 0
    /\ muWriter' = r
    /\ lk' = [lk EXCEPT ![r] = "held"]
    /\ UNCHANGED <<provider, holderVars, analysisVars, rpc, rkind, berr, handlerDone,
                   muReaders, gpc, got, last, gen, overlapped>>

\* a Replace that keeps the holder's snapshot when it comes from a later reload
ReplaceWriteIfNewer(r) ==
    /\ rpc[r] \in ReplaceCalls
    /\ lk[r] = "held"
    /\ holder' = IF \E q \in Reloads : q > r /\ holder = Snap(q) THEN holder
                 ELSE IF rpc[r] = "installNil" THEN "nil" ELSE Snap(r)
    /\ lk' = [lk EXCEPT ![r] = "written"]
    /\ UNCHANGED <<provider, aiAnalyzing, aiLastError, analysisVars, rpc, rkind, berr,
                   handlerDone, muWriter, muReaders, gpc, got, last, gen, overlapped>>

\* DiffHolder.Replace: h.data = data
ReplaceWrite(r) ==
    /\ rpc[r] \in ReplaceCalls
    /\ lk[r] = "held"
    /\ holder' = IF rpc[r] = "installNil" THEN "nil" ELSE Snap(r)
    /\ lk' = [lk EXCEPT ![r] = "written"]
    /\ UNCHANGED <<provider, aiAnalyzing, aiLastError, analysisVars, rpc, rkind, berr,
                   handlerDone, muWriter, muReaders, gpc, got, last, gen, overlapped>>

\* DiffHolder.SetAIAnalyzing: h.aiAnalyzing = v
SetAIAnalyzingWrite(r) ==
    /\ rpc[r] \in FlagCalls
    /\ lk[r] = "held"
    /\ aiAnalyzing' = (rpc[r] = "setFlag")
    /\ lk' = [lk EXCEPT ![r] = "written"]
    /\ UNCHANGED <<provider, holder, aiLastError, analysisVars, rpc, rkind, berr,
                   handlerDone, muWriter, muReaders, gpc, got, last, gen, overlapped>>

\* a SetAILastError that ignores the empty string
SetAILastErrorWriteKeep(r) ==
    /\ rpc[r] \in ErrorCalls
    /\ lk[r] = "held"
    /\ aiLastError' = IF rpc[r] = "clearErr" \/ TrimSpace(berr[r]) = ""
                      THEN aiLastError ELSE TrimSpace(berr[r])
    /\ lk' = [lk EXCEPT ![r] = "written"]
    /\ UNCHANGED <<provider, holder, aiAnalyzing, analysisVars, rpc, rkind, berr,
                   handlerDone, muWriter, muReaders, gpc, got, last, gen, overlapped>>

\* DiffHolder.SetAILastError: h.aiLastError = strings.TrimSpace(err)
SetAILastErrorWrite(r) ==
    /\ rpc[r] \in ErrorCalls
    /\ lk[r] = "held"
    /\ aiLastError' = IF rpc[r] = "clearErr" THEN "" ELSE TrimSpace(berr[r])
    /\ lk' = [lk EXCEPT ![r] = "written"]
    /\ UNCHANGED <<provider, holder, aiAnalyzing, analysisVars, rpc, rkind, berr,
                   handlerDone, muWriter, muReaders, gpc, got, last, gen, overlapped>>

\* where a reload goes when the holder method it called returns
AfterCall(r) ==
    CASE rpc[r] = "installNil" -> "done"
      [] rpc[r] = "install"    -> IF AINil THEN "done" ELSE "setFlag"
      [] rpc[r] = "setFlag"    -> "clearErr"
      [] rpc[r] = "clearErr"   -> "go"
      [] rpc[r] = "setErr"     -> "publish"
      [] rpc[r] = "publish"    -> "clearFlag"
      [] rpc[r] = "clearFlag"  -> "done"

\* the deferred h.mu.Unlock(): the method returns.  A handler whose last
\* holder call this was (no repository, or no AI client) returns as well.
\* berr keeps what enrichRiskWithAI returned until the goroutine has ended.
HolderUnlock(r) ==
    /\ lk[r] = "written"
    /\ muWriter' = 0
    /\ lk' = [lk EXCEPT ![r] = "out"]
    /\ rpc' = [rpc EXCEPT ![r] = AfterCall(r)]
    /\ last' = IF rpc[r] \in ReplaceCalls
               THEN [by |-> r, at |-> rpc[r], data |-> holder]
               ELSE last
    /\ gen' = IF rpc[r] \in {"installNil", "install"}
              THEN [gen EXCEPT ![r] = Cardinality({q \in Reloads : gen[q] > 0}) + 1]
              ELSE gen
    /\ handlerDone' = IF rpc[r] \in {"installNil", "install"} /\ AfterCall(r) = "done"
                      THEN [handlerDone EXCEPT ![r] = TRUE]
                      ELSE handlerDone
    /\ berr' = IF rpc[r] = "clearFlag" THEN [berr EXCEPT ![r] = ""] ELSE berr
    /\ UNCHANGED <<provider, holderVars, analysisVars, rkind, muReaders, gpc, got, overlapped>>

\* the go statement: the goroutine enters AnalyzeDiffAI, which returns at
\* once when the DiffData has no files (len(data.Files) is not read again)
GoBatch(r) ==
    /\ rpc[r] = "go"
    /\ rpc' = [rpc EXCEPT ![r] = IF rkind[r] = "empty" THEN "clearFlag" ELSE "preflight"]
    /\ rkind' = [rkind EXCEPT ![r] = ""]
    /\ UNCHANGED <<provider, holderVars, analysisVars, berr, lk, handlerDone,
                   muWriter, muReaders, gpc, got, last, gen, overlapped>>

\* the positions of a reload whose goroutine has been started
Spawned == {"preflight", "scoring", "setErr", "publish", "clearFlag", "done"}

\* a handler that waits for its goroutine before it returns
HandlerReturnJoined(r) ==
    /\ rpc[r] = "done"
    /\ ~handlerDone[r]
    /\ handlerDone' = [handlerDone EXCEPT ![r] = TRUE]
    /\ UNCHANGED <<provider, holderVars, analysisVars, rpc, rkind, berr, lk, muWriter,
                   muReaders, gpc, got, last, gen, overlapped>>

\* after the go statement the handler returns (reloadCurrentRepo returns
\* nil, the /api/diff/reload handler writes its response)
HandlerReturn(r) ==
    /\ rpc[r] \in Spawned
    /\ ~handlerDone[r]
    /\ handlerDone' = [handlerDone EXCEPT ![r] = TRUE]
    /\ UNCHANGED <<provider, holderVars, analysisVars, rpc, rkind, berr, lk, muWriter,
                   muReaders, gpc, got, last, gen, overlapped>>

\* enrichRiskWithAI of the goroutine: the Preflight call; its failure ends
\* the batch
BatchPreflight(r) ==
    /\ rpc[r] = "preflight"
    /\ \E e \in PreflightResults(provider) :
        /\ berr' = [berr EXCEPT ![r] = e]
        /\ rpc' = [rpc EXCEPT ![r] = IF e # "" THEN "setErr" ELSE "scoring"]
    /\ UNCHANGED <<provider, holderVars, analysisVars, rkind, lk, handlerDone,
                   muWriter, muReaders, gpc, got, last, gen, overlapped>>

\* enrichRiskWithAI of the goroutine: the per-file calls, up to its return
\* with nil or with the first failure
BatchScore(r) ==
    /\ rpc[r] = "scoring"
    /\ \E e \in {"", "timeout"} : berr' = [berr EXCEPT ![r] = e]
    /\ rpc' = [rpc EXCEPT ![r] = "setErr"]
    /\ UNCHANGED <<provider, holderVars, analysisVars, rkind, lk, handlerDone,
                   muWriter, muReaders, gpc, got, last, gen, overlapped>>

\* DiffHolder.Get: h.mu.RLock()
GetRLock ==
    /\ gpc = "idle"
    /\ muWriter = 0
    /\ muReaders' = muReaders + 1
    /\ gpc' = "rlocked"
    /\ UNCHANGED <<provider, holderVars, analysisVars, rpc, rkind, berr, lk,
                   handlerDone, muWriter, got, last, gen, overlapped>>

\* a Get that reads h.data without the read lock
GetReadUnlocked ==
    /\ gpc \in {"idle", "rlocked"}
    /\ got' = holder
    /\ gpc' = "read"
    /\ muReaders' = IF gpc = "idle" THEN muReaders + 1 ELSE muReaders
    /\ UNCHANGED <<provider, holderVars, analysisVars, rpc, rkind, berr, lk,
                   handlerDone, muWriter, last, gen, overlapped>>

\* DiffHolder.Get: the read of h.data for "return h.data"
GetRead ==
    /\ gpc = "rlocked"
    /\ got' = holder
    /\ gpc' = "read"
    /\ UNCHANGED <<provider, holderVars, analysisVars, rpc, rkind, berr, lk,
                   handlerDone, muWriter, muReaders, last, gen, overlapped>>

\* DiffHolder.Get: the deferred h.mu.RUnlock(); Get returns got to its caller
GetRUnlock ==
    /\ gpc = "read"
    /\ muReaders' = muReaders - 1
    /\ gpc' = "idle"
    /\ got' = "none"
    /\ UNCHANGED <<provider, holderVars, analysisVars, rpc, rkind, berr, lk,
                   handlerDone, muWriter, last, gen, overlapped>>

NextReloads ==
    \/ \E r \in Reloads : ReloadNoRepo(r)
    \/ \E r \in Reloads : ReloadParseFails(r)
    \/ \E r \in Reloads : ReloadParsed(r)
    \/ \E r \in Reloads : HolderLock(r)
    \/ \E r \in Reloads : ReplaceWrite(r)
    \/ \E r \in Reloads : SetAIAnalyzingWrite(r)
    \/ \E r \in Reloads : SetAILastErrorWrite(r)
    \/ \E r \in Reloads : HolderUnlock(r)
    \/ \E r \in Reloads : GoBatch(r)
    \/ \E r \in Reloads : HandlerReturn(r)
    \/ \E r \in Reloads : BatchPreflight(r)
    \/ \E r \in Reloads : BatchScore(r)
    \/ GetRLock
    \/ GetRead
    \/ GetRUnlock

SpecReloads == InitReloads /\ [][NextReloads]_vars

\* the argument of the most recently completed Replace, or of NewDiffHolder
LastReplaced == last.data

\* C14: whenever the most recently completed Replace is the one at the end of
\* reload r's background batch, the holder holds r's DiffData, also when
\* another reload q installed its snapshot after r installed its own: the
\* older snapshot overwrites the newer one, Replace compares no generations.
C14_StaleOverwrite ==
    \A r, q \in Reloads :
        (last.by = r /\ last.at = "publish" /\ gen[q] > gen[r] /\ muWriter = 0)
            => holder = Snap(r)

\* C14: reload 1 installed first, reload 2 installed its snapshot and is still
\* enriching it, and the batch of reload 1 has finished: the holder holds the
\* snapshot of reload 1
C14_Witness ==
    /\ rpc[1] = "done"
    /\ rpc[2] \in {"preflight", "scoring"}
    /\ gen[1] = 1
    /\ gen[2] = 2
    /\ last = [by |-> 1, at |-> "publish", data |-> "d1"]
    /\ holder = "d1"

\* C15: the value a Get has read, and returns, is the argument of the most
\* recently completed Replace, or of NewDiffHolder when no Replace has
\* completed; a reload that found no repository completed Replace(nil), which
\* Get returns as "nil"; a snapshot Get returns was passed to Replace by the
\* reload that parsed it.
C15_GetLatest ==
    /\ gpc = "read" =>
        /\ got = LastReplaced
        /\ \A r \in Reloads : got = Snap(r) => gen[r] > 0 /\ rpc[r] \notin {"idle", "installNil"}
        /\ got # "none"
    /\ last.at = "installNil" => last.data = "nil"
    /\ (last.at = "installNil" /\ muWriter = 0) => holder = "nil"

\* C15: a Get returns nil after the reload that found no repository, while
\* the Replace at the end of the other reload's batch waits for the lock
C15_Witness ==
    /\ gpc = "read"
    /\ got = "nil"
    /\ last = [by |-> 1, at |-> "installNil", data |-> "nil"]
    /\ rpc[2] = "publish"
    /\ lk[2] = "out"

\* the positions of a goroutine inside a Preflight or a per-file scorer call
InBackendCall == {"preflight", "scoring"}

\* C16: a reload with an AI client has completed the Replace of its
\* heuristically scored snapshot before its goroutine is started; once the
\* goroutine is started the handler can return, whatever the batch is doing;
\* a goroutine inside a Preflight or scorer call holds no holder lock, so a
\* Get can take the read lock whenever no other holder call is in progress.
C16_InstallThenBackground ==
    \A r \in Reloads :
        /\ rpc[r] \in {"setFlag", "clearErr", "go"} \cup (Spawned \ {"done"}) => gen[r] > 0
        /\ (rpc[r] \in Spawned /\ ~handlerDone[r]) => ENABLED HandlerReturn(r)
        /\ rpc[r] \in InBackendCall => lk[r] = "out" /\ muWriter # r
        /\ (rpc[r] \in InBackendCall /\ gpc = "idle"
              /\ \A q \in Reloads \ {r} : lk[q] = "out") => ENABLED GetRLock

\* C16: the handler of reload 1 has returned, its batch is inside the scorer
\* calls, and a Get has read the heuristically scored snapshot
C16_Witness ==
    /\ handlerDone[1]
    /\ rpc[1] = "scoring"
    /\ gpc = "read"
    /\ got = "d1"
    /\ last = [by |-> 1, at |-> "install", data |-> "d1"]

\* DiffHolder.IsAIAnalyzing: what a caller that has the read lock is returned
IsAIAnalyzing == aiAnalyzing

\* the positions of a goroutine whose AnalyzeDiffAI has not returned
BatchUnfinished == {"preflight", "scoring", "setErr", "publish"}

\* C17: whenever the read lock can be had, IsAIAnalyzing() is true if the
\* background batch of some reload has not finished, and false if every
\* reload is either not started or completely finished.
C17_FlagAccurate ==
    muWriter = 0 =>
        /\ (\E r \in Reloads : rpc[r] \in BatchUnfinished) => IsAIAnalyzing
        /\ (\A r \in Reloads : rpc[r] \in {"idle", "done"}) => ~IsAIAnalyzing

(***************************************************************************)
(* the two heuristic functions on one parsed file                          *)
(***************************************************************************)
\* parsed files.  Paths: plain source, several risk patterns at once, and
\* paths on which more than one classification rule matches; raw diffs; and
\* <<LinesAdded, LinesRemoved>> on and around the thresholds
ProbeFiles ==
    LET ProbePaths ==
            {"src/util.go", "auth/login.go", "db/schema.sql", "docs/config.yaml",
             "test/app.css", "src/test_util.py", "api/Styles.CSS", "Makefile", "README",
             "pkg/billing/token.go", "api/auth/crypto/db/role/config.go"}
        ProbeDiffs ==
            {"", "+q := \"SELECT * FROM users\"", "+ALTER TABLE t ADD c int",
             "-\tif err != nil {", "-if err != nil {", "-\t\tif err != nil {",
             "-  catch (e) {", "+x = total - if errCount", "+a\n- except ValueError:",
             "+// Fix the bug", "+panic(x)"}
        ProbeLines ==
            {<<0, 0>>, <<220, 0>>, <<3, 7>>, <<4, 6>>, <<7, 3>>, <<2, 30>>, <<60, 50>>,
             <<30, 25>>, <<5, 11>>, <<5, 10>>, <<101, 100>>, <<100, 100>>, <<50, 50>>,
             <<25, 25>>}
    IN  {[Path |-> p, Status |-> st, RawDiff |-> d, LinesAdded |-> l[1], LinesRemoved |-> l[2]] :
            p \in ProbePaths, st \in {"added", "modified"}, d \in ProbeDiffs, l \in ProbeLines}

\* everything but the file under examination
servingVars == <<provider, entry, pc, input, file, heur, dataFiles, holderVars,
                 batchVars, scorer, sideVars, reloadVars>>

\* parseFileDiff has produced one file; nothing else is going on
InitHeuristics ==
    /\ provider = "none"
    /\ entry = "main"
    /\ pc = "boot"
    /\ input = <<>>
    /\ file = <<>>
    /\ heur = <<>>
    /\ dataFiles = <<>>
    /\ holder = "unset"
    /\ aiAnalyzing = FALSE
    /\ aiLastError = ""
    /\ concurrency = 0
    /\ preflights = 0
    /\ preflightErr = ""
    /\ failFast = FALSE
    /\ cancelled = FALSE
    /\ failErr = ""
    /\ sem = 0
    /\ next = 1
    /\ wpc = <<>>
    /\ wres = <<>>
    /\ wout = <<>>
    /\ batchErr = ""
    /\ scorer = <<>>
    /\ NoReloads
    /\ NoSideRuns
    /\ hfile \in ProbeFiles
    /\ hstep = "parsed"
    /\ hres = [RiskScore |-> 0, RiskReasons |-> <<>>, SemanticGroup |-> ""]

\* scoreFileRiskHeuristic(file)
ScoreFile ==
    /\ hstep = "parsed"
    /\ hres' = [hres EXCEPT !.RiskScore = scoreFileRiskHeuristic(hfile).score,
                            !.RiskReasons = scoreFileRiskHeuristic(hfile).reasons]
    /\ hstep' = "scored"
    /\ UNCHANGED <<hfile, servingVars>>

\* classifySemanticGroupHeuristic(file)
ClassifyFile ==
    /\ hstep = "scored"
    /\ hres' = [hres EXCEPT !.SemanticGroup = classifySemanticGroupHeuristic(hfile)]
    /\ hstep' = "classified"
    /\ UNCHANGED <<hfile, servingVars>>

NextHeuristics ==
    \/ ScoreFile
    \/ ClassifyFile

SpecHeuristics == InitHeuristics /\ [][NextHeuristics]_vars

\* reference: the patterns of the table that apply to f
RefMatched(f) ==
    {k \in DOMAIN riskPatterns :
        LET onPath == \E j \in DOMAIN riskPatterns[k].pathContains :
                          Contains(ToLower(f.Path), riskPatterns[k].pathContains[j])
            onDiff == \E j \in DOMAIN riskPatterns[k].contentContains :
                          Contains(ToLower(f.RawDiff),
                                   ToLower(riskPatterns[k].contentContains[j]))
        IN  onPath \/ (~onPath /\ onDiff)}

RECURSIVE SumScores(_)
SumScores(ks) ==
    IF ks = {} THEN 0
    ELSE LET k == CHOOSE x \in ks : TRUE IN riskPatterns[k].score + SumScores(ks \ {k})

\* reference: the reasons of a set of patterns, in table order
ReasonsInOrder(ks) ==
    [n \in 1..Cardinality(ks) |->
        riskPatterns[CHOOSE k \in ks : Cardinality({j \in ks : j < k}) = n - 1].reason]

\* reference: the one size bonus, by descending threshold
RefSize(f) ==
    LET t == f.LinesAdded + f.LinesRemoved
    IN  CASE t > 200 -> [score |-> 15, reasons |-> <<"Large change (200+ lines)">>]
          [] t > 100 /\ t <= 200 ->
                 [score |-> 10, reasons |-> <<"Medium-large change (100+ lines)">>]
          [] t > 50 /\ t <= 100 ->
                 [score |-> 5, reasons |-> <<"Moderate change (50+ lines)">>]
          [] OTHER -> [score |-> 0, reasons |-> <<>>]

RefRemoval(f) ==
    IF f.LinesRemoved > 2 * f.LinesAdded /\ f.LinesRemoved > 10
    THEN [score |-> 10, reasons |-> <<"Significant code removal">>]
    ELSE [score |-> 0, reasons |-> <<>>]

\* reference: the error-handling penalty, taken as the analyzer applies it
RefErrorHandling(f) ==
    LET a == ErrorHandlingPenalty([score |-> 0, reasons |-> <<>>], ToLower(f.RawDiff))
    IN  a

\* reference: the risk score and reasons of f
RefRisk(f) ==
    LET sum == SumScores(RefMatched(f)) + RefSize(f).score + RefRemoval(f).score
               + RefErrorHandling(f).score
    IN  [score |-> IF sum > 100 THEN 100 ELSE sum,
         reasons |-> ReasonsInOrder(RefMatched(f)) \o RefSize(f).reasons
                     \o RefRemoval(f).reasons \o RefErrorHandling(f).reasons]

\* the example: auth/login.go added with 220 lines and a SELECT
LoginExample ==
    [Path |-> "auth/login.go", Status |-> "added",
     RawDiff |-> "+q := \"SELECT * FROM users\"", LinesAdded |-> 220, LinesRemoved |-> 0]

\* C18: the score and the reasons scoreFileRiskHeuristic stores equal the
\* reference: every pattern of the table that applies (by path, or else by
\* content) counted once, one size bonus, the removal bonus, the
\* error-handling penalty, capped at 100, the reasons in that order; the
\* example file scores 30 + 20 + 15 = 65.
C18_ScoreIsReference ==
    hstep \in {"scored", "classified"} =>
        /\ hres.RiskScore = RefRisk(hfile).score
        /\ hres.RiskReasons = RefRisk(hfile).reasons
        /\ hfile = LoginExample =>
            /\ hres.RiskScore = 65
            /\ hres.RiskReasons = <<"Touches authentication/authorization code",
                                    "Contains raw SQL or query execution",
                                    "Large change (200+ lines)">>

\* C18: the example file has been scored 65
C18_Witness == hstep = "scored" /\ hfile = LoginExample /\ hres.RiskScore = 65

\* the character of s at position i
CharAt(s, i) == SubSeq(s, i, i)

RECURSIVE SkipBlanks(_, _)
\* the first position from j on that holds neither a space nor a tab
SkipBlanks(s, j) ==
    IF j <= Len(s) /\ CharAt(s, j) \in {" ", "\t"} THEN SkipBlanks(s, j + 1) ELSE j

\* reference: the raw diff has a removed line (a line starting with "-")
\* whose text after the "-" and any leading spaces or tabs begins with
\* "if err", "catch" or "except"
RemovedErrorLine(rawDiff) ==
    LET s == ToLower(rawDiff)
    IN  \E i \in 1..Len(s) :
            /\ i = 1 \/ CharAt(s, i - 1) = "\n"
            /\ CharAt(s, i) = "-"
            /\ \E kw \in {"if err", "catch", "except"} :
                   SubSeq(s, SkipBlanks(s, i + 1), SkipBlanks(s, i + 1) + Len(kw) - 1) = kw

\* C19: the reason "Removes error handling" (with its +15) is stored exactly
\* when the raw diff has a removed line that, after the "-" and any amount
\* of leading white space, begins with "if err", "catch" or "except".
C19_PenaltyOnRemovedLines ==
    hstep \in {"scored", "classified"} =>
        ((\E k \in DOMAIN hres.RiskReasons : hres.RiskReasons[k] = "Removes error handling")
            <=> RemovedErrorLine(hfile.RawDiff))

\* p ends with suffix
HasSuffix(p, suffix) ==
    Len(p) >= Len(suffix) /\ SubSeq(p, Len(p) - Len(suffix) + 1, Len(p)) = suffix

\* the final element of the lowercased path p is name
NamedFile(p, name) == p = name \/ HasSuffix(p, "/" \o name)

\* reference: the rules of the decision list in order, each with whether it
\* applies to f and the tag it gives; the last rule always applies
GroupRules(f) ==
    LET p == ToLower(f.Path)
        d == ToLower(f.RawDiff)
        a == f.LinesAdded
        r == f.LinesRemoved
    IN  << [when |-> \/ \E m \in {"_test.", ".test.", ".spec.", "test/", "tests/",
                                  "__tests__/"} : Contains(p, m)
                     \/ HasPrefix(ToLower(Base(f.Path)), "test_"),
            tag |-> "test"],
           [when |-> \/ \E e \in {".md", ".txt", ".rst", ".adoc"} : HasSuffix(p, e)
                     \/ Contains(p, "docs/") \/ Contains(p, "doc/")
                     \/ \E n \in {"readme", "changelog", "license"} : NamedFile(p, n),
            tag |-> "docs"],
           [when |-> \/ \E e \in {".yaml", ".yml", ".toml", ".json", ".ini", ".cfg",
                                  ".conf", ".env", ".tf"} : HasSuffix(p, e)
                     \/ \E n \in {"dockerfile", "makefile", ".gitignore", ".dockerignore",
                                  "docker-compose.yml", "docker-compose.yaml"} :
                            NamedFile(p, n)
                     \/ Contains(p, "config/") \/ Contains(p, ".github/"),
            tag |-> "config"],
           [when |-> \E e \in {".css", ".scss", ".less", ".sass"} : HasSuffix(p, e),
            tag |-> "style"],
           [when |-> \E w \in {"fix", "bug", "patch", "hotfix"} : Contains(d, w),
            tag |-> "bugfix"],
           [when |-> f.Status = "added", tag |-> "feature"],
           [when |-> a > 0 /\ r = 0, tag |-> "feature"],
           [when |-> a > 0 /\ r > 0 /\ 10 * a - 3 * (a + r) > 0 /\ 7 * (a + r) - 10 * a > 0,
            tag |-> "refactor"],
           [when |-> TRUE, tag |-> "feature"] >>

\* reference: the tag of the first rule that applies
FirstMatch(f) ==
    LET rules == GroupRules(f)
        k == CHOOSE i \in DOMAIN rules :
                 rules[i].when /\ \A j \in 1..(i - 1) : ~rules[j].when
    IN  rules[k].tag

\* C20: the tag classifySemanticGroupHeuristic stores is the tag of the first
\* rule of the decision list that applies to the file's status, path, line
\* counts and raw diff, whatever later rules apply as well.
C20_FirstMatchWins ==
    hstep = "classified" => hres.SemanticGroup = FirstMatch(hfile)

\* C20: an added file on which the documentation, configuration and bugfix
\* rules all apply has been tagged docs
C20_Witness ==
    /\ hstep = "classified"
    /\ hfile.Path = "docs/config.yaml"
    /\ hfile.RawDiff = "+// Fix the bug"
    /\ hfile.Status = "added"
    /\ Cardinality({i \in DOMAIN GroupRules(hfile) : GroupRules(hfile)[i].when}) >= 5
    /\ hres.SemanticGroup = "docs"

\* the reasons a successful worker leaves: the AI reasons, or the placeholder
AIReasons(r) == IF Len(r.Reasons) > 0 THEN r.Reasons ELSE <<NoRisksPlaceholder>>

\* C25: a worker whose call succeeded has left the file with the AI score
\* clamped to [0,100], with the AI reasons (or the one placeholder) in place
\* of the reasons it had, and with the AI tag only if it is one of the seven;
\* a worker whose call failed has left riskScore and semanticGroup as the
\* heuristic pass set them.  (The reasons are compared before the batch's
\* fallback pass, which may add the notice afterwards.)
C25_WorkerFrame ==
    \A i \in Ids :
        /\ (wpc[i] = "done" /\ wout[i] = "ok") =>
            /\ file[i].RiskScore = ClampScore(wres[i].RiskScore)
            /\ file[i].RiskScore \in 0..100
            /\ (pc \notin AfterBatch \/ failErr = "") =>
                   file[i].RiskReasons = AIReasons(wres[i])
            /\ file[i].SemanticGroup =
                   IF ToLower(TrimSpace(wres[i].SemanticGroup)) \in SemanticGroups
                   THEN ToLower(TrimSpace(wres[i].SemanticGroup))
                   ELSE heur[i].SemanticGroup
        /\ (wpc[i] = "done" /\ wout[i] \notin {"", "ok"}) =>
            /\ file[i].RiskScore = heur[i].RiskScore
            /\ file[i].SemanticGroup = heur[i].SemanticGroup

\* C25: one worker has applied the response with score 150 and no reasons
\* to a file with heuristic reasons, and another worker's call has failed
C25_Witness ==
    /\ pc \notin AfterBatch
    /\ \E i \in Ids : /\ wpc[i] = "done" /\ wout[i] = "ok"
                      /\ wres[i].RiskScore = 150
                      /\ Len(heur[i].RiskReasons) > 0
                      /\ file[i].RiskScore = 100
                      /\ file[i].RiskReasons = <<NoRisksPlaceholder>>
    /\ \E j \in Ids : wpc[j] = "done" /\ wout[j] = "timeout"

\* no worker goroutine of the batch is running
WorkersQuiet == \A j \in Ids : wpc[j] \in {"idle", "done"}

\* C26: every step that changes a file of the batch is either a step of that
\* file's own worker, which changes no other file, or the batch-level
\* fallback pass, taken when no worker is running; every step that changes
\* the file list (the sort) is taken when no worker is running and the
\* fallback pass is over.
C26_SingleWriter ==
    [][ /\ \A i \in Ids :
            file'[i] # file[i] =>
                \/ /\ wpc[i] \in {"inflight", "clamp"}
                   /\ wpc'[i] # wpc[i]
                   /\ \A j \in Ids \ {i} : file'[j] = file[j] /\ wpc'[j] = wpc[j]
                   /\ pc' = pc
                \/ /\ pc \in {"enrich", "join"}
                   /\ pc' = "returned"
                   /\ WorkersQuiet
        /\ (Ids # {} /\ dataFiles' # dataFiles) =>
                /\ pc \in {"returned", "sort"}
                /\ WorkersQuiet
                /\ file' = file ]_vars

\* C26: a file written by its worker and afterwards by the fallback pass, in a
\* batch whose list has then been re-sorted into another order
C26_Witness ==
    /\ pc \in {"replace", "clearFlag", "done"}
    /\ failErr # ""
    /\ dataFiles # [k \in DOMAIN dataFiles |-> k]
    /\ \E i \in Ids : /\ wout[i] = "ok"
                      /\ file[i].RiskScore = ClampScore(wres[i].RiskScore)
                      /\ HasNotice(file[i].RiskReasons)

(***************************************************************************)
(* the analysis under the scheduling the Go runtime gives: the goroutine   *)
(* running enrichRiskWithAI and every worker goroutine take their next     *)
(* step when it stays possible, and a Preflight or per-file call that has  *)
(* been made returns                                                       *)
(***************************************************************************)
\* the steps of the goroutine that runs enrichRiskWithAI
BatchStep == Preflight \/ DispatchCheck \/ DispatchSpawn \/ Join

\* the steps of the worker goroutine of file i
WorkerStep(i) ==
    /\ i \in Ids
    /\ WorkerCheck(i) \/ WorkerCall(i) \/ WorkerReturn(i) \/ WorkerApply(i)

\* the goroutine that runs enrichRiskWithAI can take a step: it is not waiting
\* for a slot ("sem <-" at 356) or for the workers (wg.Wait() at 403)
CanBatchStep ==
    \/ pc \in {"enrich", "dispatch"}
    \/ pc = "acquire" /\ sem < concurrency
    \/ pc = "join" /\ \A i \in Ids : wpc[i] \in {"idle", "done"}

\* the worker goroutine of file i has been started and has not returned
CanWorkerStep(i) == i \in Ids /\ wpc[i] \in {"check", "call", "inflight", "clamp"}

\* Weak fairness of BatchStep and of every WorkerStep(i), that is
\* WF_vars(BatchStep) /\ \A i : WF_vars(WorkerStep(i)), with the enabling
\* condition of each written as the guard of its actions.
FairSpec ==
    /\ Init
    /\ [][Next]_vars
    /\ ([]<>(~CanBatchStep) \/ []<><<BatchStep>>_vars)
    /\ \A i \in 1..MaxFiles : ([]<>(~CanWorkerStep(i)) \/ []<><<WorkerStep(i)>>_vars)

\* enrichRiskWithAI has returned, every slot is released and every started
\* worker has signalled completion
BatchOver == pc \in AfterBatch /\ sem = 0 /\ WorkersQuiet

\* C27: every batch that is started returns with all slots released and all
\* started workers finished, and the dispatcher never stays blocked on the
\* semaphore, whatever fails and whenever the cancellation signal is tripped.
C27_BatchTerminates ==
    /\ (pc = "enrich") ~> BatchOver
    /\ (pc = "acquire") ~> (pc # "acquire")

\* C27: a batch with one slot has returned after a failure tripped the signal
\* while the dispatcher was waiting for the slot: the worker started next
\* returned without calling
C27_Witness ==
    /\ BatchOver
    /\ concurrency = 1
    /\ failErr # ""
    /\ \E i \in Ids : wpc[i] = "done" /\ wout[i] = "" /\ wres[i] = NoCall

(***************************************************************************)
(* The error of a batch and the snapshot served with it                    *)
(***************************************************************************)
\* reload r is between its go statement and the call that stores what its
\* batch returned: SetAILastError("") has returned, the batch's
\* SetAILastError has not written yet
BeforeOutcome(r) ==
    \/ rpc[r] \in {"go", "preflight", "scoring"}
    \/ rpc[r] = "setErr" /\ lk[r] \in {"out", "held"}

\* the batch of reload r has stored its outcome and the goroutine has not
\* ended: AnalyzeDiffAI is at or after its SetAILastError, or has returned
\* at once because the DiffData has no files
AfterOutcome(r) ==
    \/ rpc[r] = "setErr" /\ lk[r] = "written"
    \/ rpc[r] \in {"publish", "clearFlag"}

ViewSorted ==
    \A k, l \in DOMAIN ReaderView :
        k < l => ReaderView[k].RiskScore >= ReaderView[l].RiskScore

\* every file whose call succeeded shows the score the backend gave, clamped
ViewEnriched ==
    \A i \in Ids : wout[i] = "ok" => file[i].RiskScore = ClampScore(wres[i].RiskScore)

\* C29: a background batch publishes in the order last error, re-sorted
\* snapshot, analyzing flag: while the error or the snapshot of the batch is
\* still to be published the flag is up, and once IsAIAnalyzing() is false
\* after the reload started its batch, GetAILastError() is the outcome of
\* that batch and Get() gives the enriched files in descending order of
\* their new scores.
C29_PublishedBeforeFlag ==
    (entry = "reload" /\ ~AINil) =>
        /\ pc \in BeforeReplace => aiAnalyzing
        /\ pc \in {"sort", "replace", "clearFlag"} /\ N > 0 =>
               aiLastError = TrimSpace(batchErr)
        /\ pc = "clearFlag" /\ N > 0 => ViewSorted /\ HolderGet = "data"
        /\ ~aiAnalyzing =>
            /\ pc = "done"
            /\ HolderGet = "data"
            /\ ViewSorted
            /\ ViewEnriched
            /\ aiLastError = TrimSpace(batchErr)
            /\ (aiLastError # "") <=> (preflightErr # "" \/ failErr # "")

\* C29: the flag is down after a batch that failed for one file and changed
\* the order of the list
C29_Witness ==
    /\ entry = "reload"
    /\ ~aiAnalyzing
    /\ N >= 2
    /\ aiLastError = "timeout"
    /\ ReaderView # heur
    /\ \E k \in DOMAIN dataFiles : dataFiles[k] # k
    /\ \E i \in Ids : wout[i] = "ok" /\ file[i].RiskScore # heur[i].RiskScore

(***************************************************************************)
(* ParseGitDiff: the raw output of git diff into DiffFile and DiffHunk     *)
(***************************************************************************)
RECURSIVE SplitFrom(_, _, _, _)
\* the pieces of s from position from on: leftmost occurrence first, the
\* search going on behind it
SplitFrom(s, n, from, occ) ==
    LET later == {i \in occ : i >= from}
    IN  IF later = {} THEN <<SubSeq(s, from, Len(s))>>
        ELSE LET i == CHOOSE x \in later : \A y \in later : x <= y
             IN  <<SubSeq(s, from, i - 1)>> \o SplitFrom(s, n, i + n, occ)

\* strings.Split(s, sep) for a non-empty sep
Split(s, sep) ==
    LET Occurrences == {i \in 1..(Len(s) - Len(sep) + 1) : SubSeq(s, i, i + Len(sep) - 1) = sep}
    IN  SplitFrom(s, Len(sep), 1, Occurrences)

RECURSIVE JoinStrings(_, _)
\* strings.Join
JoinStrings(elems, sep) ==
    IF Len(elems) = 0 THEN ""
    ELSE IF Len(elems) = 1 THEN elems[1]
    ELSE elems[1] \o sep \o JoinStrings(Tail(elems), sep)

\* where the field that begins at i ends
FieldEnd(s, i) ==
    CHOOSE j \in i..Len(s) :
        /\ j = Len(s) \/ IsSpace(SubSeq(s, j + 1, j + 1))
        /\ \A k \in i..j : ~IsSpace(SubSeq(s, k, k))

RECURSIVE FieldsFrom(_, _)
FieldsFrom(s, starts) ==
    IF starts = {} THEN <<>>
    ELSE LET i == CHOOSE x \in starts : \A y \in starts : x <= y
         IN  <<SubSeq(s, i, FieldEnd(s, i))>> \o FieldsFrom(s, starts \ {i})

\* strings.Fields.  A field begins at a character that is not white space,
\* at the start of s or behind white space
Fields(s) ==
    LET FieldStarts == {i \in 1..Len(s) : /\ ~IsSpace(SubSeq(s, i, i))
                                          /\ (i = 1 \/ IsSpace(SubSeq(s, i - 1, i - 1)))}
    IN  FieldsFrom(s, FieldStarts)

RECURSIVE TrimQuotes(_)
\* strings.Trim(token, "\"")
TrimQuotes(t) ==
    IF Len(t) > 0 /\ SubSeq(t, 1, 1) = "\"" THEN TrimQuotes(SubSeq(t, 2, Len(t)))
    ELSE IF Len(t) > 0 /\ SubSeq(t, Len(t), Len(t)) = "\""
    THEN TrimQuotes(SubSeq(t, 1, Len(t) - 1))
    ELSE t

\* normalizeGitDiffPath: the token without quotes and without its first path
\* segment ("a/", "b/"); "/dev/null" as it is
normalizeGitDiffPath(token) ==
    LET t == TrimQuotes(token)
        S == {i \in 1..Len(t) : SubSeq(t, i, i) = "/"}
        slash == IF S = {} THEN 0 ELSE CHOOSE x \in S : \A y \in S : x <= y
    IN  IF t = "/dev/null" THEN t
        ELSE IF slash >= 1 /\ slash < Len(t) THEN SubSeq(t, slash + 1, Len(t))
        ELSE t

RECURSIVE scanStatusFirstWins(_, _, _)
\* a scan in which the first status line decides: later ones are ignored
scanStatusFirstWins(lines, idx, status) ==
    IF idx >= Len(lines) THEN [Status |-> status, diffBodyStart |-> 0]
    ELSE LET line == lines[idx + 1]
             keep == status # "modified"
         IN  IF HasPrefix(line, "new file")
             THEN scanStatusFirstWins(lines, idx + 1, IF keep THEN status ELSE "added")
             ELSE IF HasPrefix(line, "deleted file")
             THEN scanStatusFirstWins(lines, idx + 1, IF keep THEN status ELSE "deleted")
             ELSE IF HasPrefix(line, "rename from")
             THEN scanStatusFirstWins(lines, idx + 1, IF keep THEN status ELSE "renamed")
             ELSE IF HasPrefix(line, "@@")
             THEN [Status |-> status, diffBodyStart |-> idx]
             ELSE IF HasPrefix(line, "Binary files")
             THEN [Status |-> IF keep THEN status ELSE "binary", diffBodyStart |-> idx]
             ELSE scanStatusFirstWins(lines, idx + 1, status)

RECURSIVE scanStatus(_, _, _)
\* parseFileDiff 151-171: the loop over lines[1:] from index idx of lines on
\* (idx counts from 0 as in the code), with file.Status as it is so far; it
\* gives file.Status and diffBodyStart
scanStatus(lines, idx, status) ==
    IF idx >= Len(lines) THEN [Status |-> status, diffBodyStart |-> 0]
    ELSE LET line == lines[idx + 1]
         IN  IF HasPrefix(line, "new file")
             THEN scanStatus(lines, idx + 1, "added")
             ELSE IF HasPrefix(line, "deleted file")
             THEN scanStatus(lines, idx + 1, "deleted")
             ELSE IF HasPrefix(line, "rename from")
             THEN scanStatus(lines, idx + 1, "renamed")
             ELSE IF HasPrefix(line, "@@")
             THEN [Status |-> status, diffBodyStart |-> idx]
             ELSE IF HasPrefix(line, "Binary files")
             THEN [Status |-> "binary", diffBodyStart |-> idx]
             ELSE scanStatus(lines, idx + 1, status)

\* every line that starts with "+" counted as added
IsAddedAnyPlus(line) == HasPrefix(line, "+")

\* parseHunks 210: the line counts as added
IsAdded(line) == HasPrefix(line, "+") /\ ~HasPrefix(line, "+++")

\* parseHunks 207-214: a line added to the current hunk; it counts as
\* removed (212) when it does not count as added
AddLine(h, line) ==
    LET IsRemoved == ~IsAdded(line) /\ HasPrefix(line, "-") /\ ~HasPrefix(line, "---")
    IN  [h EXCEPT !.Content = @ \o line \o "\n",
                  !.LinesAdded = IF IsAdded(line) THEN @ + 1 ELSE @,
                  !.LinesRemoved = IF IsRemoved THEN @ + 1 ELSE @]

RECURSIVE parseHunksFrom(_, _, _)
\* parseHunks' loop from line k on.  hunks holds the finished hunks and, as
\* its last element, the hunk under construction (current): current is nil
\* exactly while hunks is empty, and the code appends it when the next hunk
\* starts or the lines end.
parseHunksFrom(lines, k, hunks) ==
    IF k > Len(lines) THEN hunks
    ELSE IF HasPrefix(lines[k], "@@")
    THEN parseHunksFrom(lines, k + 1,
                        Append(hunks, [Header |-> lines[k], Content |-> "",
                                       LinesAdded |-> 0, LinesRemoved |-> 0]))
    ELSE IF Len(hunks) > 0
    THEN parseHunksFrom(lines, k + 1,
                        [hunks EXCEPT ![Len(hunks)] = AddLine(@, lines[k])])
    ELSE parseHunksFrom(lines, k + 1, hunks)

\* parseHunks
parseHunks(lines) == parseHunksFrom(lines, 1, <<>>)

RECURSIVE SumLines(_, _)
\* parseFileDiff 185-188: the loop adding up one count of the hunks
SumLines(hunks, field) ==
    IF Len(hunks) = 0 THEN 0
    ELSE Head(hunks)[field] + SumLines(Tail(hunks), field)

\* parseFileDiff, without the Language it looks up from the path
parseFileDiff(section) ==
    LET lines == Split(section, "\n")
        hdr   == Fields(lines[1])
        path  == IF Len(hdr) >= 4 THEN normalizeGitDiffPath(hdr[4]) ELSE ""
        old   == IF Len(hdr) >= 4 THEN normalizeGitDiffPath(hdr[3]) ELSE ""
        scan  == scanStatus(lines, 1, "modified")
        hunkLines == IF scan.diffBodyStart > 0
                     THEN SubSeq(lines, scan.diffBodyStart + 1, Len(lines))
                     ELSE <<>>
        hunks == IF scan.diffBodyStart > 0 THEN parseHunks(hunkLines) ELSE <<>>
    IN  [Path |-> path,
         OldPath |-> IF old # path THEN old ELSE "",
         Status |-> scan.Status,
         Hunks |-> hunks,
         RawDiff |-> IF scan.diffBodyStart > 0 THEN JoinStrings(hunkLines, "\n") ELSE "",
         LinesAdded |-> SumLines(hunks, "LinesAdded"),
         LinesRemoved |-> SumLines(hunks, "LinesRemoved")]

\* the separator parseDiffOutput splits on
FileMarker == "diff --git "

\* the most per-file sections in one output of git diff
MaxSections == 2

\* the file sections git writes.  Heads (header and metadata lines): a
\* modified file, a new file, a deleted file, a pure rename, a rename with
\* changes, a new binary file.  Bodies (hunk regions): none; one hunk; two
\* hunks, the first adding the line "++ x" and the second removing the line
\* "-- z"; a hunk adding a line that quotes a diff header.  A head has a
\* hunk region unless it is a pure rename or a binary file
Sections ==
    LET SectionHeads ==
            {"diff --git a/x.go b/x.go\nindex 1a..2b 100644\n--- a/x.go\n+++ b/x.go\n",
             "diff --git a/n.md b/n.md\nnew file mode 100644\nindex 00..1a\n--- /dev/null\n+++ b/n.md\n",
             "diff --git a/o.py b/o.py\ndeleted file mode 100644\nindex 1a..00\n--- a/o.py\n+++ /dev/null\n",
             "diff --git a/old.txt b/new.txt\nsimilarity index 100%\nrename from old.txt\nrename to new.txt\n",
             "diff --git a/p.c b/q.c\nsimilarity index 90%\nrename from p.c\nrename to q.c\nindex 1a..2b 100644\n--- a/p.c\n+++ b/q.c\n",
             "diff --git a/i.png b/i.png\nnew file mode 100644\nindex 00..1a\nBinary files /dev/null and b/i.png differ\n"}
        SectionBodies ==
            {"",
             "@@ -1,2 +1,2 @@\n a\n-b\n+c\n",
             "@@ -1 +1,3 @@\n k\n+++ x\n+y\n@@ -9,3 +11 @@ fn\n--- z\n-w\n-v\n",
             "@@ -1 +1,2 @@\n k\n+run: diff --git a/x b/x\n"}
        TakesBody(h, b) ==
            IF Contains(h, "Binary files") \/ Contains(h, "similarity index 100%")
            THEN b = ""
            ELSE b # ""
    IN  {h \o b : <<h, b>> \in {hb \in SectionHeads \X SectionBodies : TakesBody(hb[1], hb[2])}}

RECURSIVE Outputs(_)
\* the outputs of git diff with up to n file sections
Outputs(n) ==
    IF n = 0 THEN {""}
    ELSE Outputs(n - 1) \cup {o \o sec : o \in Outputs(n - 1), sec \in Sections}

\* what ParseGitDiff can receive: the outputs of git diff, and the output
\* of a git whose configuration prints a line that is no diff
RawTexts == Outputs(MaxSections) \cup {"warning: no diff here\n"}

\* everything outside the parser, the statistics and the repository list
hostVars == <<provider, entry, pc, input, file, heur, dataFiles, holderVars, batchVars,
              scorer, reloadVars, probeVars>>

\* no analysis, reload or single-file examination is going on
NoHost ==
    /\ provider = "none"
    /\ entry = "main"
    /\ pc = "boot"
    /\ input = <<>>
    /\ file = <<>>
    /\ heur = <<>>
    /\ dataFiles = <<>>
    /\ holder = "unset"
    /\ aiAnalyzing = FALSE
    /\ aiLastError = ""
    /\ concurrency = 0
    /\ preflights = 0
    /\ preflightErr = ""
    /\ failFast = FALSE
    /\ cancelled = FALSE
    /\ failErr = ""
    /\ sem = 0
    /\ next = 1
    /\ wpc = <<>>
    /\ wres = <<>>
    /\ wout = <<>>
    /\ batchErr = ""
    /\ scorer = <<>>
    /\ NoReloads
    /\ NoProbe

\* runGitDiff has returned raw
InitParse ==
    /\ raw \in RawTexts
    /\ parts = <<>>
    /\ parsedFiles = <<>>
    /\ ppc = "raw"
    /\ NoHost
    /\ NoStats
    /\ NoRepos

\* parseDiffOutput 120-121: strings.Split(raw, "diff --git ") and parts[1:]
SplitRaw ==
    /\ ppc = "raw"
    /\ parts' = Tail(Split(raw, FileMarker))
    /\ ppc' = "files"
    /\ UNCHANGED <<raw, parsedFiles, hostVars, statsVars, repoVars>>

\* parseDiffOutput 121-126: one turn of the loop (parseFileDiff never
\* returns nil: strings.Split gives at least one line)
ParsePart ==
    /\ ppc = "files"
    /\ Len(parts) > 0
    /\ parsedFiles' = Append(parsedFiles, parseFileDiff(FileMarker \o Head(parts)))
    /\ parts' = Tail(parts)
    /\ UNCHANGED <<raw, ppc, hostVars, statsVars, repoVars>>

\* parseDiffOutput returns files; ParseGitDiff 68-72 stores them, an empty
\* list in place of nil, and returns without error
ParseReturn ==
    /\ ppc = "files"
    /\ Len(parts) = 0
    /\ ppc' = "parsed"
    /\ UNCHANGED <<raw, parts, parsedFiles, hostVars, statsVars, repoVars>>

NextParse ==
    \/ SplitRaw
    \/ ParsePart
    \/ ParseReturn

SpecParse == InitParse /\ [][NextParse]_vars

\* the lines of a hunk's Content: every line ends with "\n"
ContentLines(h) ==
    LET ls == Split(h.Content, "\n") IN SubSeq(ls, 1, Len(ls) - 1)

\* the lines of the hunks of f, as <<hunk, line>> index pairs, that start
\* with sign and not with three of it
SignedLines(f, sign) ==
    {hk \in UNION {{<<h, k>> : k \in DOMAIN ContentLines(f.Hunks[h])} : h \in DOMAIN f.Hunks} :
        LET line == ContentLines(f.Hunks[hk[1]])[hk[2]]
        IN  HasPrefix(line, sign) /\ ~HasPrefix(line, sign \o sign \o sign)}

\* C21: for every parsed file and each of its hunks, the hunk's counts are
\* the numbers of its content lines that start with "+" but not "+++", and
\* with "-" but not "---"; the file's counts are the totals over its hunks;
\* a file without hunks has 0 and 0.
C21_CountsAreSums ==
    \A i \in DOMAIN parsedFiles :
        LET f == parsedFiles[i]
        IN  /\ \A h \in DOMAIN f.Hunks :
                /\ f.Hunks[h].LinesAdded =
                       Cardinality({hk \in SignedLines(f, "+") : hk[1] = h})
                /\ f.Hunks[h].LinesRemoved =
                       Cardinality({hk \in SignedLines(f, "-") : hk[1] = h})
            /\ f.LinesAdded = Cardinality(SignedLines(f, "+"))
            /\ f.LinesRemoved = Cardinality(SignedLines(f, "-"))
            /\ Len(f.Hunks) = 0 => f.LinesAdded = 0 /\ f.LinesRemoved = 0

\* C21: a pure rename and a file of two hunks have been parsed; the hunks
\* hold an added line "++ x" and a removed line "-- z", which are not counted
C21_Witness ==
    /\ ppc = "parsed"
    /\ \E i, j \in DOMAIN parsedFiles :
        /\ parsedFiles[i].Status = "renamed"
        /\ Len(parsedFiles[i].Hunks) = 0
        /\ parsedFiles[i].OldPath = "old.txt"
        /\ Len(parsedFiles[j].Hunks) = 2
        /\ Contains(parsedFiles[j].Hunks[1].Content, "+++ x")
        /\ Contains(parsedFiles[j].Hunks[2].Content, "--- z")
        /\ parsedFiles[j].LinesAdded = 1
        /\ parsedFiles[j].LinesRemoved = 2

\* the lines of raw that are per-file headers
HeaderLines(text) == SelectSeq(Split(text, "\n"), LAMBDA l : HasPrefix(l, FileMarker))

\* C22: once ParseGitDiff has returned, data.Files holds one file for each
\* header line of raw, in the order of the header lines and with the header's
\* path; with no header line it is empty.  A line inside a hunk adds no file.
C22_OneFilePerHeader ==
    ppc = "parsed" =>
        /\ Len(parsedFiles) = Len(HeaderLines(raw))
        /\ \A i \in DOMAIN parsedFiles :
               i <= Len(HeaderLines(raw)) =>
                   parsedFiles[i].Path = normalizeGitDiffPath(Fields(HeaderLines(raw)[i])[4])

\* the section of raw that parsedFiles[i] was parsed from
SectionOf(i) == FileMarker \o Tail(Split(raw, FileMarker))[i]

\* the lines of a section between its header and its first "@@" line
MetaLines(section) ==
    LET lines == Split(section, "\n")
        H == {k \in 2..Len(lines) : HasPrefix(lines[k], "@@")}
        end == IF H = {} THEN Len(lines) ELSE (CHOOSE x \in H : \A y \in H : x <= y) - 1
    IN  SubSeq(lines, 2, end)

\* the status a metadata line stands for, "" for any other line
MarkerStatus(line) ==
    IF HasPrefix(line, "new file") THEN "added"
    ELSE IF HasPrefix(line, "deleted file") THEN "deleted"
    ELSE IF HasPrefix(line, "rename from") THEN "renamed"
    ELSE IF HasPrefix(line, "Binary files") THEN "binary"
    ELSE ""

LastMarker(meta) ==
    LET B == {k \in DOMAIN meta : MarkerStatus(meta[k]) = "binary"}
        stop == IF B = {} THEN Len(meta) ELSE CHOOSE x \in B : \A y \in B : x <= y
        M == {k \in 1..stop : MarkerStatus(meta[k]) # ""}
    IN  IF M = {} THEN "modified"
        ELSE MarkerStatus(meta[CHOOSE x \in M : \A y \in M : x >= y])

RiskBucketTwo(score) == IF score >= 50 THEN "high" ELSE "low"

\* computeStats 864-871: the switch on f.RiskScore
RiskBucket(score) ==
    IF score >= 50 THEN "high"
    ELSE IF score >= 20 THEN "medium"
    ELSE "low"

\* m[key]++ on a Go map: a missing key counts from 0
Increment(m, key) ==
    [k \in DOMAIN m \cup {key} |-> IF k = key
                                   THEN (IF key \in DOMAIN m THEN m[key] + 1 ELSE 1)
                                   ELSE m[k]]

\* computeStats 832-845 and 849-855: the statistics before any file is counted
ZeroStats ==
    [totalFiles |-> 0, totalAdded |-> 0, totalRemoved |-> 0, groupCounts |-> <<>>,
     riskDistribution |-> [high |-> 0, medium |-> 0, low |-> 0]]

\* computeStats 857-872: one turn of the loop over data.Files
CountFile(acc, f) ==
    [acc EXCEPT !.totalAdded = @ + f.LinesAdded,
                !.totalRemoved = @ + f.LinesRemoved,
                !.groupCounts = Increment(@, f.SemanticGroup),
                !.riskDistribution = [@ EXCEPT ![RiskBucket(f.RiskScore)] = @ + 1]]

RECURSIVE CountFiles(_, _)
CountFiles(acc, files) ==
    IF Len(files) = 0 THEN acc
    ELSE CountFiles(CountFile(acc, Head(files)), Tail(files))

\* computeStats
computeStats(data) ==
    IF data.Nil THEN ZeroStats
    ELSE [CountFiles(ZeroStats, data.Files) EXCEPT !.totalFiles = Len(data.Files)]

\* the most files in a snapshot whose statistics are asked for
MaxStatFiles == 2

RECURSIVE StatLists(_)
\* the file lists of up to n analysed files, the files on and around the
\* two thresholds
StatLists(n) ==
    LET StatFiles ==
            {[RiskScore |-> s, SemanticGroup |-> g, LinesAdded |-> l[1], LinesRemoved |-> l[2]] :
                s \in {0, 19, 20, 49, 50, 100}, g \in {"feature", "test"},
                l \in {<<0, 0>>, <<3, 7>>}}
    IN  IF n = 0 THEN {<<>>}
        ELSE StatLists(n - 1) \cup {Append(fl, f) : fl \in StatLists(n - 1), f \in StatFiles}

\* a request for /api/diff has called holder.Get(): nil or a DiffData
InitStats ==
    /\ statsData \in {NilData} \cup {[Nil |-> FALSE, Files |-> fl] : fl \in StatLists(MaxStatFiles)}
    /\ statsOut = <<>>
    /\ NoHost
    /\ NoParse
    /\ NoRepos

\* the handler calls computeStats(data)
ComputeStats ==
    /\ statsOut = <<>>
    /\ statsOut' = computeStats(statsData)
    /\ UNCHANGED <<statsData, hostVars, parserVars, repoVars>>

NextStats == ComputeStats

SpecStats == InitStats /\ [][NextStats]_vars

\* the files of the snapshot, none for nil
StatInput == statsData.Files

RECURSIVE SumOver(_, _)
\* the sum of f[k] over the indices in S
SumOver(f, S) ==
    IF S = {} THEN 0
    ELSE LET k == CHOOSE x \in S : TRUE IN f[k] + SumOver(f, S \ {k})

\* C24: the statistics computeStats returned count every file in exactly
\* one bucket: high for a riskScore of at least 50, medium for at least 20
\* and under 50, low under 20, so that the three counts add up to
\* totalFiles; totalAdded and totalRemoved are the sums of the files' lines,
\* the group counts are the numbers of files of each group and add up to
\* totalFiles; for a nil snapshot all counts are 0 and there are no groups.
C24_StatsAddUp ==
    statsOut # <<>> =>
        LET fs == StatInput
            rd == statsOut.riskDistribution
            gc == statsOut.groupCounts
        IN  /\ statsOut.totalFiles = Len(fs)
            /\ rd.high = Cardinality({i \in DOMAIN fs : fs[i].RiskScore >= 50})
            /\ rd.medium = Cardinality({i \in DOMAIN fs :
                                          fs[i].RiskScore >= 20 /\ fs[i].RiskScore < 50})
            /\ rd.low = Cardinality({i \in DOMAIN fs : fs[i].RiskScore < 20})
            /\ rd.high + rd.medium + rd.low = statsOut.totalFiles
            /\ statsOut.totalAdded = SumOver([i \in DOMAIN fs |-> fs[i].LinesAdded], DOMAIN fs)
            /\ statsOut.totalRemoved = SumOver([i \in DOMAIN fs |-> fs[i].LinesRemoved], DOMAIN fs)
            /\ DOMAIN gc = {fs[i].SemanticGroup : i \in DOMAIN fs}
            /\ \A g \in DOMAIN gc :
                   gc[g] = Cardinality({i \in DOMAIN fs : fs[i].SemanticGroup = g})
            /\ SumOver(gc, DOMAIN gc) = statsOut.totalFiles
            /\ statsData.Nil => statsOut = ZeroStats

\* C24: statistics of two files, one at the medium threshold and one just
\* under the high threshold, of two groups
C24_Witness ==
    /\ statsOut # <<>>
    /\ ~statsData.Nil
    /\ Len(StatInput) = 2
    /\ StatInput[1].RiskScore = 20
    /\ StatInput[2].RiskScore = 49
    /\ StatInput[1].SemanticGroup # StatInput[2].SemanticGroup
    /\ statsOut.riskDistribution.medium = 2
    /\ statsOut.totalAdded = 6

(***************************************************************************)
(* RepoManager: Add and Select called by concurrent requests                *)
(***************************************************************************)
\* the directories for which validateGitRepo returns nil
GitRepos == {"/r/a", "/r/b", "/r/c"}

RECURSIVE CleanElems(_, _)
\* filepath.Clean on the elements of a rooted path: empty and "." elements
\* go, ".." takes the element before it with it
CleanElems(elems, out) ==
    IF Len(elems) = 0 THEN out
    ELSE IF Head(elems) \in {"", "."} THEN CleanElems(Tail(elems), out)
    ELSE IF Head(elems) = ".."
    THEN CleanElems(Tail(elems), IF Len(out) = 0 THEN out ELSE SubSeq(out, 1, Len(out) - 1))
    ELSE CleanElems(Tail(elems), Append(out, Head(elems)))

\* filepath.Abs: a relative path is joined to the working directory of the
\* server, and the result is cleaned
Abs(path) ==
    LET Cwd == "/r"
        full == IF HasPrefix(path, "/") THEN path ELSE Cwd \o "/" \o path
    IN  "/" \o JoinStrings(CleanElems(Split(full, "/"), <<>>), "/")

\* Add 46-58: the Repo built for a path; a missing name is the base name
NewRepo(absPath, name) ==
    [ID |-> absPath, Name |-> IF name = "" THEN Base(absPath) ELSE name, Path |-> absPath]

\* the indices of the repos whose field has the value
Having(list, field, value) == {k \in DOMAIN list : list[k][field] = value}

\* the first repo of the list whose field has the value
FirstHaving(list, field, value) ==
    list[CHOOSE k \in Having(list, field, value) : \A l \in Having(list, field, value) : k <= l]

\* no Repo and no error
NoResult == [repo |-> <<>>, err |-> ""]

\* a caller that is making no call
Idle == [op |-> "", arg |-> "", pc |-> "idle", res |-> NoResult]

\* the requests that can call into the RepoManager at the same time
MaxCallers == 2

Callers == 1..MaxCallers

\* the paths handed to Add: a repository in three spellings, two more
\* repositories, one of them relative, and a directory that is none
AddPaths == {"/r/a", "/r/a/", "/r/./a", "/r/b", "c", "/r/x"}

\* the IDs handed to Select: those of the repositories and an unknown one
SelectIDs == GitRepos \cup {"/r/zz"}

\* what the store file can hold when the server starts: nothing, or what an
\* earlier run persisted
StoredFiles ==
    {[Repos |-> <<>>, CurrentRepoID |-> ""],
     [Repos |-> <<NewRepo("/r/a", "")>>, CurrentRepoID |-> "/r/a"],
     [Repos |-> <<NewRepo("/r/x", ""), NewRepo("/r/b", "")>>, CurrentRepoID |-> "/r/x"]}

\* load 150-170: the stored repos that still validate, and as current the
\* stored one when it is among them, the first of them otherwise
load(stored) ==
    LET valid == SelectSeq(stored.Repos, LAMBDA rp : rp.Path \in GitRepos)
    IN  [repos |-> valid,
         currentRepoID |->
             IF stored.CurrentRepoID # "" /\ Having(valid, "ID", stored.CurrentRepoID) # {}
             THEN stored.CurrentRepoID
             ELSE IF Len(valid) > 0 THEN valid[1].ID ELSE ""]

\* NewRepoManager has loaded the store file; no request is under way
InitRepos ==
    /\ \E st \in StoredFiles :
        /\ store = st
        /\ repos = load(st).repos
        /\ currentRepoID = load(st).currentRepoID
    /\ repoMu = 0
    /\ call = [c \in Callers |-> Idle]
    /\ NoHost
    /\ NoParse
    /\ NoStats

\* Add 32-44: filepath.Abs and validateGitRepo, before the lock is taken; a
\* directory that is no repository ends the call with an error
AddResolve(c) ==
    /\ call[c].pc = "idle"
    /\ \E path \in AddPaths :
        call' = [call EXCEPT ![c] =
                    IF Abs(path) \in GitRepos
                    THEN [op |-> "Add", arg |-> Abs(path), pc |-> "lock", res |-> NoResult]
                    ELSE [op |-> "Add", arg |-> Abs(path), pc |-> "returned",
                          res |-> [repo |-> <<>>, err |-> "not a git repository"]]]
    /\ UNCHANGED <<repos, currentRepoID, store, repoMu, hostVars, parserVars, statsVars>>

\* a request calls Select(repoID)
SelectCall(c) ==
    /\ call[c].pc = "idle"
    /\ \E id \in SelectIDs :
        call' = [call EXCEPT ![c] = [op |-> "Select", arg |-> id, pc |-> "lock",
                                     res |-> NoResult]]
    /\ UNCHANGED <<repos, currentRepoID, store, repoMu, hostVars, parserVars, statsVars>>

\* m.mu.Lock() of Add and Select
RepoLock(c) ==
    /\ call[c].pc = "lock"
    /\ repoMu = 0
    /\ repoMu' = c
    /\ call' = [call EXCEPT ![c].pc = "locked"]
    /\ UNCHANGED <<repos, currentRepoID, store, hostVars, parserVars, statsVars>>

\* an Add that appends without looking for the path in the list
AddBodyNoLookup(c) ==
    /\ call[c].pc = "locked"
    /\ call[c].op = "Add"
    /\ repos' = Append(repos, NewRepo(call[c].arg, ""))
    /\ currentRepoID' = IF currentRepoID = "" THEN call[c].arg ELSE currentRepoID
    /\ store' = [Repos |-> repos', CurrentRepoID |-> currentRepoID']
    /\ call' = [call EXCEPT ![c].pc = "unlock",
                            ![c].res = [repo |-> NewRepo(call[c].arg, ""), err |-> ""]]
    /\ UNCHANGED <<repoMu, hostVars, parserVars, statsVars>>

\* Add 46-68 under the lock: the path is looked up; a registered path gives
\* the existing Repo back (and becomes current when there is none), a new
\* one is appended, becomes current when there is none, and is persisted
AddBody(c) ==
    /\ call[c].pc = "locked"
    /\ call[c].op = "Add"
    /\ IF Having(repos, "Path", call[c].arg) # {}
       THEN /\ currentRepoID' = IF currentRepoID = ""
                                THEN FirstHaving(repos, "Path", call[c].arg).ID
                                ELSE currentRepoID
            /\ call' = [call EXCEPT ![c].pc = "unlock",
                                    ![c].res = [repo |-> FirstHaving(repos, "Path", call[c].arg),
                                                err |-> ""]]
            /\ UNCHANGED <<repos, store>>
       ELSE /\ repos' = Append(repos, NewRepo(call[c].arg, ""))
            /\ currentRepoID' = IF currentRepoID = "" THEN call[c].arg ELSE currentRepoID
            /\ store' = [Repos |-> repos', CurrentRepoID |-> currentRepoID']
            /\ call' = [call EXCEPT ![c].pc = "unlock",
                                    ![c].res = [repo |-> NewRepo(call[c].arg, ""), err |-> ""]]
    /\ UNCHANGED <<repoMu, hostVars, parserVars, statsVars>>

\* Select 87-98 under the lock: a known ID becomes current and is persisted,
\* an unknown one gives an error
SelectBody(c) ==
    /\ call[c].pc = "locked"
    /\ call[c].op = "Select"
    /\ IF Having(repos, "ID", call[c].arg) # {}
       THEN /\ currentRepoID' = FirstHaving(repos, "ID", call[c].arg).ID
            /\ store' = [Repos |-> repos, CurrentRepoID |-> currentRepoID']
            /\ call' = [call EXCEPT ![c].pc = "unlock",
                                    ![c].res = [repo |-> FirstHaving(repos, "ID", call[c].arg),
                                                err |-> ""]]
            /\ UNCHANGED repos
       ELSE /\ call' = [call EXCEPT ![c].pc = "unlock",
                                    ![c].res = [repo |-> <<>>, err |-> "repository not found"]]
            /\ UNCHANGED <<repos, currentRepoID, store>>
    /\ UNCHANGED <<repoMu, hostVars, parserVars, statsVars>>

\* the deferred m.mu.Unlock(): the call returns its result
RepoUnlock(c) ==
    /\ call[c].pc = "unlock"
    /\ repoMu' = 0
    /\ call' = [call EXCEPT ![c].pc = "returned"]
    /\ UNCHANGED <<repos, currentRepoID, store, hostVars, parserVars, statsVars>>

\* the request is over; the caller can make its next call
CallOver(c) ==
    /\ call[c].pc = "returned"
    /\ call' = [call EXCEPT ![c] = Idle]
    /\ UNCHANGED <<repos, currentRepoID, store, repoMu, hostVars, parserVars, statsVars>>

NextRepos ==
    \/ \E c \in Callers : AddResolve(c)
    \/ \E c \in Callers : SelectCall(c)
    \/ \E c \in Callers : RepoLock(c)
    \/ \E c \in Callers : AddBody(c)
    \/ \E c \in Callers : SelectBody(c)
    \/ \E c \in Callers : RepoUnlock(c)
    \/ \E c \in Callers : CallOver(c)

SpecRepos == InitRepos /\ [][NextRepos]_vars

\* currentRepoID is empty or the ID of a listed repo, and no two listed
\* repos have the same path
ReposConsistent ==
    /\ currentRepoID = "" \/ Having(repos, "ID", currentRepoID) # {}
    /\ \A k, l \in DOMAIN repos : repos[k].Path = repos[l].Path => k = l

\* C30: in every state reached by Add and Select calls of concurrent
\* requests, currentRepoID is empty or the ID of a repo of the list and no
\* two repos of the list have the same path; an Add of a registered path
\* returns the repo already listed and leaves the list as it is, and a Select
\* of an unknown ID returns an error and leaves currentRepoID and the list as
\* they are.
C30_ReposConsistent ==
    [][/\ ReposConsistent
       /\ ReposConsistent'
       /\ \A c \in Callers :
           (call[c].pc = "locked" /\ call'[c].pc = "unlock") =>
               /\ (call[c].op = "Add" /\ Having(repos, "Path", call[c].arg) # {}) =>
                      /\ repos' = repos
                      /\ call'[c].res.err = ""
                      /\ \E k \in DOMAIN repos : repos[k] = call'[c].res.repo
               /\ (call[c].op = "Select" /\ Having(repos, "ID", call[c].arg) = {}) =>
                      /\ call'[c].res.err # ""
                      /\ repos' = repos
                      /\ currentRepoID' = currentRepoID
               /\ (call[c].op = "Select" /\ Having(repos, "ID", call[c].arg) # {}) =>
                      currentRepoID' = call[c].arg]_vars

\* C30: two requests have added the same repository under two spellings at
\* the same time: it is listed once, both got the same Repo, and a repository
\* added before is still the current one
C30_Witness ==
    /\ \A c \in Callers : call[c].op = "Add" /\ call[c].pc = "returned" /\ call[c].arg = "/r/a"
    /\ call[1].res = call[2].res
    /\ call[1].res.err = ""
    /\ Cardinality(Having(repos, "Path", "/r/a")) = 1
    /\ Len(repos) = 2
    /\ currentRepoID = "/r/b"

====
